---- MODULE Spec2Model ----
(***************************************************************************)
(* Model of ReversibleLayer (official/vision/modeling/layers/nn_blocks.py) *)
(* with its two inner blocks F and G (ResidualInner or                     *)
(* BottleneckResidualInner) and the helper _maybe_downsample, and of the   *)
(* other blocks of the file: their constructors and get_config, and the    *)
(* call of the residual, bottleneck, inverted bottleneck, Tucker and       *)
(* transformer blocks.                                                     *)
(*                                                                         *)
(* A tensor is a record [h, ch]: h is the spatial size (height = width),   *)
(* ch the sequence of channel values.  Tensors are constant over the batch *)
(* and over the spatial positions, so one integer per channel is the whole *)
(* value.  The channel axis is the axis the layer splits and concatenates  *)
(* on (self._axis), whichever data format is selected.                     *)
(*                                                                         *)
(* F and G are integer affine maps with two trainable variables (kernel,   *)
(* beta) and two non-trainable variables (moving_mean, moving_variance)    *)
(* that move on every call made with training = TRUE.                      *)
(***************************************************************************)
EXTENDS Integers, Sequences, FiniteSets, TLC

VARIABLES
  f,                      \* self._f: the inner block F (configuration and trainable variables)
  g,                      \* self._g: the inner block G
  manual_grads,           \* self._manual_grads
  fNonTrainable,          \* self._f.non_trainable_variables (current values)
  gNonTrainable,          \* self._g.non_trainable_variables (current values)
  f_non_trainable_vars,   \* self._f_non_trainable_vars: the snapshot, or NoSnapshot
  g_non_trainable_vars,   \* self._g_non_trainable_vars: the snapshot, or NoSnapshot
  pc,                     \* "idle", "forward_done", "forward_error", "backward_done", "backward_error"
  fwd,                    \* what the forward call recorded (the closure of grad_fn and fwdtape)
  bwd,                    \* what grad_fn was given and what it returned or raised
  events,                 \* the calls of F and G and the snapshot/restore steps, in order
  calls,                  \* the forward calls of the layer whose grad_fn may still be called
  block,                  \* a block of the file other than the layer above, or NoBlock
  stage,                  \* "none", "constructed", "exported", "rebuilt", "called" or an error
  result                  \* what the last operation on `block` returned

vars == <<f, g, manual_grads, fNonTrainable, gNonTrainable,
          f_non_trainable_vars, g_non_trainable_vars, pc, fwd, bwd, events,
          calls, block, stage, result>>

\* The variables of the single block.
blockVars == <<block, stage, result>>

\* The variables of the reversible layer.
layerVars == <<f, g, manual_grads, fNonTrainable, gNonTrainable,
               f_non_trainable_vars, g_non_trainable_vars, pc, fwd, bwd, events,
               calls>>

(***************************************************************************)
(* Bounds of the model.                                                    *)
(***************************************************************************)
MaxFilters == 2     \* `filters` of an inner block ranges over 1..MaxFilters
MaxStride  == 2     \* `strides` of an inner block ranges over 1..MaxStride
MaxChannels == 4    \* input channel counts 1..MaxChannels
MaxSize    == 2     \* input height/width 1..MaxSize
MaxValue   == 1     \* base channel values of inputs and of dy range over 0..MaxValue

(***************************************************************************)
(* Sequences and tensors.                                                  *)
(***************************************************************************)
RECURSIVE SumUpTo(_, _)
SumUpTo(s, n) == IF n = 0 THEN 0 ELSE s[n] + SumUpTo(s, n - 1)

\* Sum of the elements of a sequence.
SeqSum(s) == SumUpTo(s, Len(s))

Zeros(n) == [i \in 1..n |-> 0]

Tensor(h, ch) == [h |-> h, ch |-> ch]

\* The value standing for "the operation raised".
Raised == [h |-> 0, ch |-> <<>>]

IsRaised(t) == t.h = 0

\* Shape of a tensor as (spatial size, channel count).
Shape(t) == <<t.h, Len(t.ch)>>

\* Mutant: an odd channel count is split into a smaller and a larger part.
SplitUneven(x) ==
  LET n == Len(x.ch) IN
  <<Tensor(x.h, SubSeq(x.ch, 1, n \div 2)),
    Tensor(x.h, SubSeq(x.ch, n \div 2 + 1, n))>>

\* Mutant: the halves are returned in the opposite order.
SplitSwapped(x) ==
  LET n == Len(x.ch) IN
  IF n % 2 # 0 THEN <<Raised, Raised>>
  ELSE <<Tensor(x.h, SubSeq(x.ch, n \div 2 + 1, n)),
         Tensor(x.h, SubSeq(x.ch, 1, n \div 2))>>

\* tf.split(x, num_or_size_splits=2, axis): the two halves in channel order;
\* raises when the channel count is odd.
Split(x) ==
  LET n == Len(x.ch) IN
  IF n % 2 # 0 THEN <<Raised, Raised>>
  ELSE <<Tensor(x.h, SubSeq(x.ch, 1, n \div 2)),
         Tensor(x.h, SubSeq(x.ch, n \div 2 + 1, n))>>

\* tf.concat([a, b], axis): the channels of a, then those of b; every other
\* dimension must agree.
Concat(a, b) ==
  IF IsRaised(a) \/ IsRaised(b) \/ a.h # b.h THEN Raised
  ELSE Tensor(a.h, a.ch \o b.ch)

\* Mutant: the sum takes the size of its first operand.
BroadcastDimOfFirst(m, n) == IF m = n \/ n = 1 \/ m = 1 THEN m ELSE 0

\* Broadcasting of one dimension: equal sizes, or one of them 1.
BroadcastDim(m, n) == IF m = n \/ n = 1 THEN m ELSE IF m = 1 THEN n ELSE 0

\* Channel k of a tensor broadcast to n channels.
ChannelAt(t, k) == IF Len(t.ch) = 1 THEN t.ch[1] ELSE t.ch[k]

\* a + b with broadcasting; raises on incompatible shapes.
Add(a, b) ==
  LET h == BroadcastDim(a.h, b.h)
      n == BroadcastDim(Len(a.ch), Len(b.ch))
  IN IF IsRaised(a) \/ IsRaised(b) \/ h = 0 \/ n = 0 THEN Raised
     ELSE Tensor(h, [k \in 1..n |-> ChannelAt(a, k) + ChannelAt(b, k)])

\* Mutant: the operands of the subtraction are exchanged.
SubReversed(a, b) ==
  LET h == BroadcastDim(a.h, b.h)
      n == BroadcastDim(Len(a.ch), Len(b.ch))
  IN IF IsRaised(a) \/ IsRaised(b) \/ h = 0 \/ n = 0 THEN Raised
     ELSE Tensor(h, [k \in 1..n |-> ChannelAt(b, k) - ChannelAt(a, k)])

\* a - b with broadcasting.
Sub(a, b) ==
  LET h == BroadcastDim(a.h, b.h)
      n == BroadcastDim(Len(a.ch), Len(b.ch))
  IN IF IsRaised(a) \/ IsRaised(b) \/ h = 0 \/ n = 0 THEN Raised
     ELSE Tensor(h, [k \in 1..n |-> ChannelAt(a, k) - ChannelAt(b, k)])

\* tf.pad on the channel axis with pad_size = [lo, hi] zeros.
PadChannels(x, lo, hi) == Tensor(x.h, Zeros(lo) \o x.ch \o Zeros(hi))

\* tf.nn.avg_pool(x, ksize, strides, 'VALID'): ksize and strides are the
\* length-4 tuples of _pad_strides; spatial is the position of the height
\* entry for the data format.  The mean of a spatially constant tensor is
\* its value; a window larger than the input raises.
AvgPoolValid(x, ksize, strides, data_format) ==
  LET spatial == IF data_format = "NCHW" THEN 3 ELSE 2
      k == ksize[spatial]
      s == strides[spatial]
  IN IF IsRaised(x) \/ x.h < k THEN Raised
     ELSE Tensor((x.h - k) \div s + 1, x.ch)

\* Mutant: the convolution keeps the size of its input.
ConvSameSizeOfInput(h, strides) == h

\* Output size of a convolution with padding='same' and the given stride.
ConvSameSize(h, strides) == (h + strides - 1) \div strides

(***************************************************************************)
(* _pad_strides and _maybe_downsample.                                     *)
(***************************************************************************)
\* Mutant: the stride is left out of the pooling window.
PadStridesOfOne(strides, axis) == <<1, 1, 1, 1>>

PadStrides(strides, axis) ==
  IF axis = 1 THEN <<1, 1, strides, strides>> ELSE <<1, strides, strides, 1>>

MaybeDownsample(x, out_filter, strides, axis) ==
  LET data_format == IF axis = 1 THEN "NCHW" ELSE "NHWC"
      strides4 == PadStrides(strides, axis)
      pooled == AvgPoolValid(x, strides4, strides4, data_format)
      in_filter == Len(pooled.ch)
  IN IF IsRaised(pooled) THEN Raised
     ELSE IF in_filter < out_filter
          THEN PadChannels(pooled, (out_filter - in_filter) \div 2,
                                   (out_filter - in_filter) \div 2)
          ELSE pooled

(***************************************************************************)
(* Inner blocks F and G: ResidualInner and BottleneckResidualInner.        *)
(* A block is [kind, filters, strides, kernel, beta].                      *)
(***************************************************************************)
Kinds == {"ResidualInner", "BottleneckResidualInner"}

\* Mutant: the last convolution of the bottleneck has `filters` channels.
OutFiltersNotExpanded(blk) == blk.filters

\* Channel count of the block's last convolution: filters for ResidualInner
\* (_conv2d_2), filters * 4 for BottleneckResidualInner (_conv2d_3).
OutFilters(blk) ==
  IF blk.kind = "BottleneckResidualInner" THEN blk.filters * 4 ELSE blk.filters

\* Weight from input channel j to output channel k.
Weight(blk, j, k) == blk.kernel + ((j + k) % 2)

\* The value the block returns.  One convolution has the block's stride, the
\* others stride 1, all with padding='same'.  In training mode batch
\* normalization uses the batch statistics; otherwise the moving mean.
InnerValue(blk, nt, x, training) ==
  Tensor(ConvSameSize(x.h, blk.strides),
         [k \in 1..OutFilters(blk) |->
            SeqSum([j \in 1..Len(x.ch) |-> Weight(blk, j, k) * x.ch[j]])
            + blk.beta - (IF training THEN 0 ELSE nt[1])])

\* The non-trainable variables <<moving_mean, moving_variance>> after a call:
\* batch normalization moves them only when training.
InnerStatistics(blk, nt, x, training) ==
  IF training
  THEN <<nt[1] + 1 + SeqSum(x.ch) * SeqSum(x.ch), nt[2] + 1>>
  ELSE nt

\* Backward function of the block as recorded by a gradient tape at input x:
\* the vector-Jacobian products for the input and for <<kernel, beta>>.
\* The gradient given for the output must have the output's shape.
InnerGradient(blk, x, dy) ==
  IF IsRaised(dy) \/ Len(dy.ch) # OutFilters(blk)
       \/ dy.h # ConvSameSize(x.h, blk.strides)
  THEN [ok |-> FALSE, dx |-> Raised, dw |-> <<>>]
  ELSE [ok |-> TRUE,
        dx |-> Tensor(x.h, [j \in 1..Len(x.ch) |->
                 SeqSum([k \in 1..Len(dy.ch) |-> Weight(blk, j, k) * dy.ch[k]])]),
        dw |-> << SeqSum(dy.ch) * SeqSum(x.ch), SeqSum(dy.ch) >>]

\* blk.trainable_variables, as references.
TrainableVariables(name) == << <<name, "kernel">>, <<name, "beta">> >>

(***************************************************************************)
(* ReversibleLayer.                                                        *)
(***************************************************************************)
\* A snapshot attribute that was never assigned.  A block has non-trainable
\* variables, so no snapshot taken is the empty list.
NoSnapshot == <<>>

\* self._axis: the channel axis of the data format 'channels_last'.
Axis == -1

\* f_var_refs + g_var_refs of grad_fn.
FGVarRefs == TrainableVariables("f") \o TrainableVariables("g")

\* The default of grad_fn's `variables`: None, which is no list.
VariablesNone == << <<"None", "">> >>

\* A variable of a layer other than F and G.
ForeignVariable == <<"other", "kernel">>

\* list.index: position of the first element equal to v, 0 when there is none
\* (Python raises ValueError).
RECURSIVE IndexFrom(_, _, _)
IndexFrom(s, v, i) ==
  IF i > Len(s) THEN 0 ELSE IF s[i] = v THEN i ELSE IndexFrom(s, v, i + 1)

Index(s, v) == IndexFrom(s, v, 1)

\* Mutant: the snapshot keeps no value.
CkptNothing(nt) == <<>>

\* _ckpt_non_trainable_vars: v.read_value() for every non-trainable variable.
CkptNonTrainableVars(nt) == [i \in 1..Len(nt) |-> nt[i]]

\* Mutant: the restore leaves the first variable (the moving mean) as the
\* recomputation set it.
LoadCkptSkippingFirst(nt, ckpt) ==
  [i \in 1..Len(nt) |-> IF 1 < i /\ i <= Len(ckpt) THEN ckpt[i] ELSE nt[i]]

\* _load_ckpt_non_trainable_vars for one block: zip(variables, snapshot) and
\* assign; zip stops at the shorter list.
LoadCkptNonTrainableVars(nt, ckpt) ==
  [i \in 1..Len(nt) |-> IF i <= Len(ckpt) THEN ckpt[i] ELSE nt[i]]

\* Mutant: the restore loop runs over blk.variables.
AllVariables == <<1, 2, 3, 4>>

\* The positions of blk.non_trainable_variables in blk.variables, which is
\* <<kernel, beta, moving_mean, moving_variance>>: trainable variables first.
NonTrainableVariables == <<3, 4>>

\* The trainable variables of a block after _load_ckpt_non_trainable_vars:
\* the loop assigns the k-th snapshot value to the k-th of the block's
\* non-trainable variables, and to no other variable.
BlockAfterLoad(blk, ckpt) ==
  LET targets == NonTrainableVariables
      pairs == {k \in 1..Len(targets) : k <= Len(ckpt)}
      Value(i, old) == IF \E k \in pairs : targets[k] = i
                       THEN ckpt[CHOOSE k \in pairs : targets[k] = i]
                       ELSE old
  IN [blk EXCEPT !.kernel = Value(1, @), !.beta = Value(2, @)]

\* An operation of a pass raised: the pass stops there.
Raise(e, what) == [e EXCEPT !.raised = what]

\* Mutant: the stride of F is not looked at.
IrreversibleIgnoringF(blkF, blkG, y, inputs) ==
  (blkG.strides # 1) \/ (Len(y.ch) # Len(inputs.ch))

\* Mutant: the stride of G is not looked at.
IrreversibleIgnoringG(blkF, blkG, y, inputs) ==
  (blkF.strides # 1) \/ (Len(y.ch) # Len(inputs.ch))

\* irreversible, as `reversible` computes it from the strides and from the
\* channel counts of y and of the input.
Irreversible(blkF, blkG, y, inputs) ==
  (blkF.strides # 1 \/ blkG.strides # 1) \/ (Len(y.ch) # Len(inputs.ch))

\* Mutant: the snapshot is taken before G is called.
ForwardStatementsEarlyCkpt ==
  <<"split", "f_call", "x1_down", "z1", "ckpt", "g_call", "x2_down", "y2", "y1", "y",
    "irreversible">>

\* The statements of the `with fwdtape` block of `reversible`, in the order
\* of the source.
ForwardStatements ==
  <<"split", "f_call", "x1_down", "z1", "g_call", "x2_down", "y2", "y1", "y",
    "irreversible", "ckpt">>

\* The local variables of `reversible` before its first statement, with the
\* statistics of F and G and the snapshot attributes of the layer.
ForwardEnv(fnt, gnt, ckptF, ckptG, inputs, training) ==
  [inputs |-> inputs, training |-> training, x1 |-> Raised, x2 |-> Raised,
   f_x2 |-> Raised, x1_down |-> Raised, z1 |-> Raised, g_z1 |-> Raised,
   x2_down |-> Raised, y1 |-> Raised, y2 |-> Raised, y |-> Raised,
   irreversible |-> FALSE, fnt |-> fnt, gnt |-> gnt,
   ckptF |-> ckptF, ckptG |-> ckptG, events |-> <<>>, raised |-> ""]

\* The effect of one statement of the forward block on the environment e.
ForwardStatement(blkF, blkG, e, s) ==
  CASE s = "split" ->
         LET halves == Split(e.inputs) IN
         IF IsRaised(halves[1]) THEN Raise(e, s)
         ELSE [e EXCEPT !.x1 = halves[1], !.x2 = halves[2]]
    [] s = "f_call" ->
         [e EXCEPT !.f_x2 = InnerValue(blkF, e.fnt, e.x2, e.training),
                   !.fnt = InnerStatistics(blkF, e.fnt, e.x2, e.training),
                   !.events = Append(@, s)]
    [] s = "x1_down" ->
         LET t == MaybeDownsample(e.x1, Len(e.f_x2.ch), blkF.strides, Axis) IN
         IF IsRaised(t) THEN Raise(e, s) ELSE [e EXCEPT !.x1_down = t]
    [] s = "z1" ->
         LET t == Add(e.f_x2, e.x1_down) IN
         IF IsRaised(t) THEN Raise(e, s) ELSE [e EXCEPT !.z1 = t]
    [] s = "g_call" ->
         [e EXCEPT !.g_z1 = InnerValue(blkG, e.gnt, e.z1, e.training),
                   !.gnt = InnerStatistics(blkG, e.gnt, e.z1, e.training),
                   !.events = Append(@, s)]
    [] s = "x2_down" ->
         LET t == MaybeDownsample(e.x2, Len(e.g_z1.ch), blkF.strides, Axis) IN
         IF IsRaised(t) THEN Raise(e, s) ELSE [e EXCEPT !.x2_down = t]
    [] s = "y2" ->
         LET t == Add(e.x2_down, e.g_z1) IN
         IF IsRaised(t) THEN Raise(e, s) ELSE [e EXCEPT !.y2 = t]
    [] s = "y1" -> [e EXCEPT !.y1 = e.z1]
    [] s = "y" ->
         LET t == Concat(e.y1, e.y2) IN
         IF IsRaised(t) THEN Raise(e, s) ELSE [e EXCEPT !.y = t]
    [] s = "irreversible" ->
         [e EXCEPT !.irreversible = Irreversible(blkF, blkG, e.y, e.inputs)]
    [] s = "ckpt" ->
         [e EXCEPT !.ckptF = CkptNonTrainableVars(e.fnt),
                   !.ckptG = CkptNonTrainableVars(e.gnt),
                   !.events = Append(@, s)]

\* The statements from the i-th on, until one raises.
RECURSIVE RunForward(_, _, _, _, _)
RunForward(blkF, blkG, e, statements, i) ==
  IF i > Len(statements) \/ e.raised # "" THEN e
  ELSE RunForward(blkF, blkG, ForwardStatement(blkF, blkG, e, statements[i]),
                  statements, i + 1)

\* The forward part of `reversible`: the environment its block ends in.
ForwardPass(blkF, blkG, fnt, gnt, ckptF, ckptG, inputs, training) ==
  RunForward(blkF, blkG, ForwardEnv(fnt, gnt, ckptF, ckptG, inputs, training),
             ForwardStatements, 1)

\* Gradient of a sum over a broadcast dimension: the gradient d of the sum,
\* reduced to the n channels of the operand.
UnBroadcast(d, n) ==
  IF Len(d.ch) = n THEN d ELSE Tensor(d.h, <<SeqSum(d.ch)>>)

\* Gradient of the channel padding of _maybe_downsample: the slice of d that
\* the n unpadded channels occupy.
UnPad(d, n) ==
  LET lo == IF n < Len(d.ch) THEN (Len(d.ch) - n) \div 2 ELSE 0
  IN Tensor(d.h, SubSeq(d.ch, lo + 1, lo + n))

\* The gradient a tape holds for the trainable variable v, given the
\* gradients dwf and dwg of F's and of G's trainable variables.
GradOfVariable(v, dwf, dwg) ==
  LET i == Index(FGVarRefs, v) IN
  IF i = 0 THEN "None" ELSE (dwf \o dwg)[i]

\* fwdtape.gradient(y, [x] + variables, output_gradients=dy): reverse-mode
\* differentiation of the recorded forward computation.  With stride 1 in F
\* and G every recorded operation keeps tensors spatially constant and the
\* values are computed; with another stride only the shapes are (the values
\* are left 0).
TapeGradient(blkF, blkG, fw, dy, variables) ==
  LET n1 == Len(fw.y1.ch)
      dy1 == Tensor(dy.h, SubSeq(dy.ch, 1, n1))
      dy2 == Tensor(dy.h, SubSeq(dy.ch, n1 + 1, Len(dy.ch)))
      half == Len(fw.x1.ch)
      dg_z1 == UnBroadcast(dy2, Len(fw.g_z1.ch))
      dx2_down == UnBroadcast(dy2, Len(fw.x2_down.ch))
      gg == InnerGradient(blkG, fw.z1, dg_z1)
      dz1 == Add(dy1, gg.dx)
      df_x2 == UnBroadcast(dz1, Len(fw.f_x2.ch))
      dx1_down == UnBroadcast(dz1, Len(fw.x1_down.ch))
      fg == InnerGradient(blkF, fw.x2, df_x2)
      dx2 == Add(UnPad(dx2_down, half), fg.dx)
      dx1 == UnPad(dx1_down, half)
  IN IF blkF.strides = 1 /\ blkG.strides = 1
     THEN [dx |-> Concat(dx1, dx2),
           grad_vars |-> [k \in 1..Len(variables) |->
                            GradOfVariable(variables[k], fg.dw, gg.dw)]]
     ELSE [dx |-> Tensor(fw.inputs.h, Zeros(Len(fw.inputs.ch))),
           grad_vars |-> [k \in 1..Len(variables) |->
                            IF Index(FGVarRefs, variables[k]) = 0 THEN "None" ELSE 0]]

\* Mutant: the gradients are returned in F-then-G order, not reordered.
GradVarsNotReordered(grad_vars, self_to_var_index) ==
  [k \in 1..Len(self_to_var_index) |-> grad_vars[k]]

\* self_to_var_index: the position of each of `variables` in fg_var_refs.
SelfToVarIndex(variables) ==
  [k \in 1..Len(variables) |-> Index(FGVarRefs, variables[k])]

\* [grad_vars[i] for i in self_to_var_index]
ReorderGradVars(grad_vars, self_to_var_index) ==
  [k \in 1..Len(self_to_var_index) |-> grad_vars[self_to_var_index[k]]]

\* Mutant: the gradient of x2 without the skip connection's dy2.
Dx2WithoutSkip(dy2, f_in) == f_in

\* dz1 = dy1 + g_grads_combined[0] and dx2 = dy2 + f_grads_combined[0]
Dz1(dy1, g_in) == Add(dy1, g_in)

Dx2(dy2, f_in) == Add(dy2, f_in)

\* Mutant: the index mapping is computed after the recomputations.
ManualStatementsLateIndex ==
  <<"stop_gradient", "split_dy", "z1", "g_recompute", "x2", "f_recompute", "x1",
    "self_to_var_index", "gtape.gradient", "dz1", "ftape.gradient", "dx2", "dx1",
    "dx", "grad_vars", "reorder", "load_ckpt">>

\* The statements of the manual branch of grad_fn (Algorithm 1), in the
\* order of the source.
ManualStatements ==
  <<"stop_gradient", "split_dy", "self_to_var_index", "z1", "g_recompute", "x2",
    "f_recompute", "x1", "gtape.gradient", "dz1", "ftape.gradient", "dx2", "dx1",
    "dx", "grad_vars", "reorder", "load_ckpt">>

\* The statements that can raise for a reason outside the layer (resource
\* exhaustion in F's recomputation or in a tape's gradient).
Faults == {"none", "f_recompute", "gtape.gradient", "ftape.gradient"}

\* The local variables of grad_fn before the first statement of the manual
\* branch: fw is the closure of the forward call.
ManualEnv(fnt, gnt, ckptF, ckptG, fw, dy, variables, fault) ==
  [fw |-> fw, dy |-> dy, variables |-> variables, fault |-> fault,
   y1_nograd |-> Raised, y2_nograd |-> Raised, dy1 |-> Raised, dy2 |-> Raised,
   self_to_var_index |-> <<>>, z1 |-> Raised, g_z1 |-> Raised, x2 |-> Raised,
   f_x2 |-> Raised, x1 |-> Raised, g_in |-> Raised, dwg |-> <<>>, dz1 |-> Raised,
   f_in |-> Raised, dwf |-> <<>>, dx2 |-> Raised, dx1 |-> Raised, dx |-> Raised,
   grad_vars |-> <<>>, fnt |-> fnt, gnt |-> gnt, ckptF |-> ckptF, ckptG |-> ckptG,
   events |-> <<>>, raised |-> ""]

\* The effect of one statement of the manual branch on the environment e.
ManualStatement(blkF, blkG, e, s) ==
  CASE s = "stop_gradient" ->
         [e EXCEPT !.y1_nograd = e.fw.y1, !.y2_nograd = e.fw.y2]
    [] s = "split_dy" ->
         LET halves == Split(e.dy) IN
         IF IsRaised(halves[1]) THEN Raise(e, s)
         ELSE [e EXCEPT !.dy1 = halves[1], !.dy2 = halves[2]]
    [] s = "self_to_var_index" ->
         LET idx == SelfToVarIndex(e.variables) IN
         IF e.variables = VariablesNone THEN Raise(e, s)
         ELSE IF \E k \in 1..Len(idx) : idx[k] = 0 THEN Raise(e, s)
         ELSE [e EXCEPT !.self_to_var_index = idx]
    [] s = "z1" -> [e EXCEPT !.z1 = e.y1_nograd]
    [] s = "g_recompute" ->
         [e EXCEPT !.g_z1 = InnerValue(blkG, e.gnt, e.z1, e.fw.training),
                   !.gnt = InnerStatistics(blkG, e.gnt, e.z1, e.fw.training),
                   !.events = Append(@, s)]
    [] s = "x2" ->
         LET t == Sub(e.y2_nograd, e.g_z1) IN
         IF IsRaised(t) THEN Raise(e, s) ELSE [e EXCEPT !.x2 = t]
    [] s = "f_recompute" ->
         [e EXCEPT !.f_x2 = InnerValue(blkF, e.fnt, e.x2, e.fw.training),
                   !.fnt = InnerStatistics(blkF, e.fnt, e.x2, e.fw.training),
                   !.events = Append(@, s)]
    [] s = "x1" ->
         LET t == Sub(e.z1, e.f_x2) IN
         IF IsRaised(t) THEN Raise(e, s) ELSE [e EXCEPT !.x1 = t]
    [] s = "gtape.gradient" ->
         LET g_grads_combined == InnerGradient(blkG, e.z1, e.dy2) IN
         IF ~g_grads_combined.ok THEN Raise(e, s)
         ELSE [e EXCEPT !.g_in = g_grads_combined.dx, !.dwg = g_grads_combined.dw]
    [] s = "dz1" ->
         LET t == Dz1(e.dy1, e.g_in) IN
         IF IsRaised(t) THEN Raise(e, s) ELSE [e EXCEPT !.dz1 = t]
    [] s = "ftape.gradient" ->
         LET f_grads_combined == InnerGradient(blkF, e.x2, e.dz1) IN
         IF ~f_grads_combined.ok THEN Raise(e, s)
         ELSE [e EXCEPT !.f_in = f_grads_combined.dx, !.dwf = f_grads_combined.dw]
    [] s = "dx2" ->
         LET t == Dx2(e.dy2, e.f_in) IN
         IF IsRaised(t) THEN Raise(e, s) ELSE [e EXCEPT !.dx2 = t]
    [] s = "dx1" -> [e EXCEPT !.dx1 = e.dz1]
    [] s = "dx" ->
         LET t == Concat(e.dx1, e.dx2) IN
         IF IsRaised(t) THEN Raise(e, s) ELSE [e EXCEPT !.dx = t]
    [] s = "grad_vars" -> [e EXCEPT !.grad_vars = e.dwf \o e.dwg]
    [] s = "reorder" ->
         [e EXCEPT !.grad_vars = ReorderGradVars(e.grad_vars, e.self_to_var_index)]
    [] s = "load_ckpt" ->
         IF e.ckptF = NoSnapshot \/ e.ckptG = NoSnapshot THEN Raise(e, s)
         ELSE [e EXCEPT !.fnt = LoadCkptNonTrainableVars(e.fnt, e.ckptF),
                        !.gnt = LoadCkptNonTrainableVars(e.gnt, e.ckptG),
                        !.events = Append(@, s)]

\* The statements from the i-th on, until one raises; the statement named by
\* the fault raises when it is reached.
RECURSIVE RunManual(_, _, _, _, _)
RunManual(blkF, blkG, e, statements, i) ==
  IF i > Len(statements) \/ e.raised # "" THEN e
  ELSE IF statements[i] = e.fault
       THEN Raise(e, statements[i])
       ELSE RunManual(blkF, blkG, ManualStatement(blkF, blkG, e, statements[i]),
                      statements, i + 1)

\* The manual branch of grad_fn: the environment it ends in.
ManualGradients(blkF, blkG, fnt, gnt, ckptF, ckptG, fw, dy, variables, fault) ==
  RunManual(blkF, blkG, ManualEnv(fnt, gnt, ckptF, ckptG, fw, dy, variables, fault),
            ManualStatements, 1)

(***************************************************************************)
(* The inputs the model draws from.                                        *)
(***************************************************************************)
\* A tensor of n channels whose first half is built on a and whose second
\* half on b, neighbouring channels differing by one.
PatternTensor(h, n, a, b) ==
  Tensor(h, [i \in 1..n |-> (IF 2 * i <= n THEN a ELSE b) + ((i - 1) % 2)])

\* The inner blocks a layer is built from.  The kernel stands for the value
\* the initializer drew, beta is initialized to zero.
Blocks(kernel) ==
  [kind : Kinds, filters : 1..MaxFilters, strides : 1..MaxStride,
   kernel : {kernel}, beta : {0}]

\* The bottleneck block of the documented scenario: filters=16, strides=1.
ScenarioBlock(kernel) ==
  [kind |-> "BottleneckResidualInner", filters |-> 16, strides |-> 1,
   kernel |-> kernel, beta |-> 0]

\* The input of the documented scenario: shape (2, 8, 8, 32).
ScenarioInputs == {PatternTensor(8, 32, a, b) : a, b \in 0..MaxValue}

Inputs ==
  {PatternTensor(h, n, a, b) :
     h \in 1..MaxSize, n \in 1..MaxChannels, a \in 0..MaxValue, b \in 0..MaxValue}

\* Output gradients of the shape of y.
OutputGradients(y) == {PatternTensor(y.h, Len(y.ch), a, b) : a, b \in 0..MaxValue}

\* Every sequence without repetition of elements of the set S.
Arrangements(S) ==
  {s \in UNION {[1..n -> S] : n \in 0..Cardinality(S)} :
     \A i, j \in 1..Len(s) : s[i] = s[j] => i = j}

\* The lists grad_fn may be given as `variables`: F's and G's trainable
\* variables, any of them, in any order.
VariableLists == Arrangements({FGVarRefs[i] : i \in 1..Len(FGVarRefs)})

Reverse(s) == [i \in 1..Len(s) |-> s[Len(s) + 1 - i]]

\* The lists a training step gives: every trainable variable of the layer,
\* in the layer's order or in the opposite order.
WatchedVariableLists == {FGVarRefs, Reverse(FGVarRefs)}

(***************************************************************************)
(* The state machine: one ReversibleLayer, one forward call and the call   *)
(* of the grad_fn it returned.                                             *)
(***************************************************************************)
NoCall == [raised |-> "not called", y |-> Raised]

\* No single block is under consideration.
NoBlock == [class |-> "none"]

Constructed ==
  /\ block = NoBlock
  /\ stage = "none"
  /\ result = NoBlock
  /\ fNonTrainable = <<0, 1>>
  /\ gNonTrainable = <<0, 1>>
  /\ f_non_trainable_vars = NoSnapshot
  /\ g_non_trainable_vars = NoSnapshot
  /\ pc = "idle"
  /\ fwd = NoCall
  /\ bwd = NoCall
  /\ events = <<>>
  /\ calls = <<>>

Init ==
  /\ f \in Blocks(1)
  /\ g \in Blocks(2)
  /\ manual_grads \in BOOLEAN
  /\ Constructed

\* ReversibleLayer.call(inputs, training): the forward part of `reversible`.
Call(inputs, training) ==
  /\ pc = "idle"
  /\ \E fw \in {ForwardPass(f, g, fNonTrainable, gNonTrainable,
                             f_non_trainable_vars, g_non_trainable_vars,
                             inputs, training)} :
     /\ fwd' = fw
     /\ fNonTrainable' = fw.fnt
     /\ gNonTrainable' = fw.gnt
     /\ f_non_trainable_vars' = fw.ckptF
     /\ g_non_trainable_vars' = fw.ckptG
     /\ events' = events \o fw.events
     /\ pc' = IF fw.raised = "" THEN "forward_done" ELSE "forward_error"
  /\ UNCHANGED <<f, g, manual_grads, bwd, calls>>
  /\ UNCHANGED blockVars

\* grad_fn(dy, variables) of the forward call recorded in fwd.  `fault` is
\* the statement of the manual branch that raises for an outside reason.
GradFn(dy, variables, fault) ==
  /\ pc = "forward_done"
  /\ IF fwd.irreversible \/ ~manual_grads
     THEN /\ fault = "none"
          /\ IF variables = VariablesNone
             THEN /\ bwd' = [path |-> "tape", dy |-> dy, variables |-> variables,
                             raised |-> "grads_combined", dx |-> Raised,
                             grad_vars |-> <<>>, x1 |-> Raised, x2 |-> Raised]
                  /\ pc' = "backward_error"
             ELSE /\ \E grads_combined \in {TapeGradient(f, g, fwd, dy, variables)} :
                       bwd' = [path |-> "tape", dy |-> dy, variables |-> variables,
                               raised |-> "", dx |-> grads_combined.dx,
                               grad_vars |-> grads_combined.grad_vars,
                               x1 |-> Raised, x2 |-> Raised]
                  /\ pc' = "backward_done"
          /\ UNCHANGED <<f, g, fNonTrainable, gNonTrainable, events>>
     ELSE \E m \in {ManualGradients(f, g, fNonTrainable, gNonTrainable,
                                     f_non_trainable_vars, g_non_trainable_vars,
                                     fwd, dy, variables, fault)} :
          /\ bwd' = [path |-> "manual", dy |-> dy, variables |-> variables,
                     raised |-> m.raised,
                     dx |-> IF m.raised = "" THEN m.dx ELSE Raised,
                     grad_vars |-> IF m.raised = "" THEN m.grad_vars ELSE <<>>,
                     x1 |-> m.x1, x2 |-> m.x2]
          /\ fNonTrainable' = m.fnt
          /\ gNonTrainable' = m.gnt
          /\ f' = IF m.raised = "" THEN BlockAfterLoad(f, m.ckptF) ELSE f
          /\ g' = IF m.raised = "" THEN BlockAfterLoad(g, m.ckptG) ELSE g
          /\ events' = events \o m.events
          /\ pc' = IF m.raised = "" THEN "backward_done" ELSE "backward_error"
  /\ UNCHANGED <<manual_grads, f_non_trainable_vars, g_non_trainable_vars, fwd, calls>>
  /\ UNCHANGED blockVars

Step(inputSet, variableLists, faults) ==
  \/ /\ pc = "idle"
     /\ \E inputs \in inputSet, training \in BOOLEAN : Call(inputs, training)
  \/ /\ pc = "forward_done"
     /\ \E dy \in OutputGradients(fwd.y), variables \in variableLists, fault \in faults :
          GradFn(dy, variables, fault)

Next == Step(Inputs, WatchedVariableLists, Faults)

Spec == Init /\ [][Next]_vars

\* Layers of stride-1 ResidualInner blocks taking manual gradients, with
\* every list of variables.
InitVariables ==
  /\ f \in {b \in Blocks(1) : b.kind = "ResidualInner" /\ b.strides = 1}
  /\ g \in {b \in Blocks(2) : b.kind = "ResidualInner" /\ b.strides = 1}
  /\ manual_grads = TRUE
  /\ Constructed

NextVariables == Step(Inputs, VariableLists, {"none"})

SpecVariables == InitVariables /\ [][NextVariables]_vars

\* What grad_fn may be given besides the layer's variables: None, a
\* variable of another layer, alone or among the layer's variables.
UnknownVariableLists ==
  {FGVarRefs, VariablesNone, <<ForeignVariable>>, Append(FGVarRefs, ForeignVariable),
   <<ForeignVariable>> \o FGVarRefs}

NextUnknownVariables == Step(Inputs, UnknownVariableLists, {"none"})

SpecUnknownVariables == Init /\ [][NextUnknownVariables]_vars

\* Forward calls on inputs of every height up to MaxHeight, which holds two
\* windows of F's stride times G's stride, and of up to 2 * MaxChannels
\* channels, two halves of the width of a bottleneck block.
MaxHeight == 8   \* input height/width 1..MaxHeight where strides are compared

StrideInputs ==
  {PatternTensor(h, n, a, a) :
     h \in 1..MaxHeight, n \in 1..(2 * MaxChannels), a \in 0..MaxValue}

NextStrides ==
  \E inputs \in StrideInputs, training \in BOOLEAN : Call(inputs, training)

SpecStrides == Init /\ [][NextStrides]_vars

\* The documented scenario: a bottleneck pair with filters=16, strides=1 on
\* an input of shape (2, 8, 8, 32).
InitScenario ==
  /\ f = ScenarioBlock(1)
  /\ g = ScenarioBlock(2)
  /\ manual_grads \in BOOLEAN
  /\ Constructed

NextScenario == Step(ScenarioInputs, WatchedVariableLists, Faults)

SpecScenario == InitScenario /\ [][NextScenario]_vars

(***************************************************************************)
(* Constructor options and get_config of the blocks.  The value of an      *)
(* option is the text of the Python value.                                 *)
(***************************************************************************)
(* Several forward calls of one layer, each returning its own grad_fn, and *)
(* the calls of these grad_fn in any order.  Every closure holds the local *)
(* variables of its forward call; the statistics of F and G and the        *)
(* snapshot attributes belong to the layer.                                *)
(***************************************************************************)
MaxCalls == 2   \* forward calls of one layer whose grad_fn is outstanding

\* Mutant: the restore reads a snapshot kept by the closure.
SnapshotOfClosure(attribute, closure) == closure

\* The snapshot _load_ckpt_non_trainable_vars reads: the attribute of the
\* layer, whichever forward call the grad_fn belongs to.
SnapshotRead(attribute, closure) == attribute

\* Inputs of one height and channel count per value.
InterleavedInputs ==
  {PatternTensor(h, n, a, a) : h \in 1..MaxSize, n \in 1..MaxChannels, a \in 0..MaxValue}

\* layer(inputs, training=training), while earlier calls are outstanding.  F
\* and G are built for the channel count of the first call.
CallInterleaved(inputs, training) ==
  /\ Len(calls) < MaxCalls
  /\ (calls # <<>>) => (Len(inputs.ch) = Len(calls[1].fw.inputs.ch))
  /\ \E fw \in {ForwardPass(f, g, fNonTrainable, gNonTrainable,
                             f_non_trainable_vars, g_non_trainable_vars,
                             inputs, training)} :
     /\ fwd' = fw
     /\ fNonTrainable' = fw.fnt
     /\ gNonTrainable' = fw.gnt
     /\ f_non_trainable_vars' = fw.ckptF
     /\ g_non_trainable_vars' = fw.ckptG
     /\ events' = events \o fw.events
     /\ pc' = IF fw.raised = "" THEN "forward_done" ELSE "forward_error"
     /\ calls' = Append(calls,
                        [fw |-> fw,
                         state |-> IF fw.raised = "" THEN "outstanding"
                                   ELSE "forward_error",
                         path |-> "", before |-> <<>>, after |-> <<>>])
  /\ UNCHANGED <<f, g, manual_grads, bwd>>
  /\ UNCHANGED blockVars

\* grad_fn(dy, variables) of the k-th forward call.
GradFnInterleaved(k, dy, variables) ==
  /\ k \in 1..Len(calls)
  /\ calls[k].state = "outstanding"
  /\ dy \in OutputGradients(calls[k].fw.y)
  /\ IF calls[k].fw.irreversible \/ ~manual_grads
     THEN /\ \E grads_combined \in {TapeGradient(f, g, calls[k].fw, dy, variables)} :
             bwd' = [path |-> "tape", dy |-> dy, variables |-> variables,
                     raised |-> "", dx |-> grads_combined.dx,
                     grad_vars |-> grads_combined.grad_vars,
                     x1 |-> Raised, x2 |-> Raised]
          /\ pc' = "backward_done"
          /\ calls' = [calls EXCEPT ![k].state = "returned", ![k].path = "tape",
                         ![k].before = <<fNonTrainable, gNonTrainable>>,
                         ![k].after = <<fNonTrainable, gNonTrainable>>]
          /\ UNCHANGED <<f, g, fNonTrainable, gNonTrainable, events>>
     ELSE \E m \in {ManualGradients(
                       f, g, fNonTrainable, gNonTrainable,
                       SnapshotRead(f_non_trainable_vars, calls[k].fw.ckptF),
                       SnapshotRead(g_non_trainable_vars, calls[k].fw.ckptG),
                       calls[k].fw, dy, variables, "none")} :
          /\ bwd' = [path |-> "manual", dy |-> dy, variables |-> variables,
                     raised |-> m.raised,
                     dx |-> IF m.raised = "" THEN m.dx ELSE Raised,
                     grad_vars |-> IF m.raised = "" THEN m.grad_vars ELSE <<>>,
                     x1 |-> m.x1, x2 |-> m.x2]
          /\ fNonTrainable' = m.fnt
          /\ gNonTrainable' = m.gnt
          /\ f' = IF m.raised = "" THEN BlockAfterLoad(f, m.ckptF) ELSE f
          /\ g' = IF m.raised = "" THEN BlockAfterLoad(g, m.ckptG) ELSE g
          /\ events' = events \o m.events
          /\ pc' = IF m.raised = "" THEN "backward_done" ELSE "backward_error"
          /\ calls' = [calls EXCEPT
                         ![k].state = IF m.raised = "" THEN "returned"
                                      ELSE "backward_error",
                         ![k].path = "manual",
                         ![k].before = <<fNonTrainable, gNonTrainable>>,
                         ![k].after = <<m.fnt, m.gnt>>]
  /\ UNCHANGED <<manual_grads, f_non_trainable_vars, g_non_trainable_vars, fwd>>
  /\ UNCHANGED blockVars

\* Layers taking manual gradients.
InitInterleaved ==
  /\ f \in Blocks(1)
  /\ g \in Blocks(2)
  /\ manual_grads = TRUE
  /\ Constructed

NextInterleaved ==
  \/ \E inputs \in InterleavedInputs, training \in BOOLEAN :
       CallInterleaved(inputs, training)
  \/ \E k \in 1..MaxCalls, a \in 0..MaxValue :
       /\ k <= Len(calls)
       /\ calls[k].state = "outstanding"
       /\ GradFnInterleaved(k, PatternTensor(calls[k].fw.y.h, Len(calls[k].fw.y.ch), a, a),
                            FGVarRefs)

SpecInterleaved == InitInterleaved /\ [][NextInterleaved]_vars

(***************************************************************************)
MaxOverrides == 1   \* options given a non-default value in one constructor call

\* An option without a default value.
Required == "<required>"

\* ResidualBlock.__init__: <<option, default, attribute>> for every named option.
ResidualBlockInit ==
  <<
    <<"filters", Required, "_filters">>, <<"strides", Required, "_strides">>,
    <<"use_projection", "False", "_use_projection">>,
    <<"se_ratio", "None", "_se_ratio">>,
    <<"resnetd_shortcut", "False", "_resnetd_shortcut">>,
    <<"stochastic_depth_drop_rate", "None", "_stochastic_depth_drop_rate">>,
    <<"kernel_initializer", "'VarianceScaling'", "_kernel_initializer">>,
    <<"kernel_regularizer", "None", "_kernel_regularizer">>,
    <<"bias_regularizer", "None", "_bias_regularizer">>,
    <<"activation", "'relu'", "_activation">>,
    <<"use_explicit_padding", "False", "_use_explicit_padding">>,
    <<"use_sync_bn", "False", "_use_sync_bn">>,
    <<"norm_momentum", "0.99", "_norm_momentum">>,
    <<"norm_epsilon", "0.001", "_norm_epsilon">>,
    <<"bn_trainable", "True", "_bn_trainable">>
  >>

\* ResidualBlock.get_config: <<key, attribute>> for every entry of `config`.
ResidualBlockConfig ==
  <<
    <<"filters", "_filters">>, <<"strides", "_strides">>,
    <<"use_projection", "_use_projection">>, <<"se_ratio", "_se_ratio">>,
    <<"resnetd_shortcut", "_resnetd_shortcut">>,
    <<"stochastic_depth_drop_rate", "_stochastic_depth_drop_rate">>,
    <<"kernel_initializer", "_kernel_initializer">>,
    <<"kernel_regularizer", "_kernel_regularizer">>,
    <<"bias_regularizer", "_bias_regularizer">>,
    <<"activation", "_activation">>,
    <<"use_explicit_padding", "_use_explicit_padding">>,
    <<"use_sync_bn", "_use_sync_bn">>, <<"norm_momentum", "_norm_momentum">>,
    <<"norm_epsilon", "_norm_epsilon">>, <<"bn_trainable", "_bn_trainable">>
  >>

\* BottleneckBlock.__init__: <<option, default, attribute>> for every named option.
BottleneckBlockInit ==
  <<
    <<"filters", Required, "_filters">>, <<"strides", Required, "_strides">>,
    <<"dilation_rate", "1", "_dilation_rate">>,
    <<"use_projection", "False", "_use_projection">>,
    <<"se_ratio", "None", "_se_ratio">>,
    <<"resnetd_shortcut", "False", "_resnetd_shortcut">>,
    <<"stochastic_depth_drop_rate", "None", "_stochastic_depth_drop_rate">>,
    <<"kernel_initializer", "'VarianceScaling'", "_kernel_initializer">>,
    <<"kernel_regularizer", "None", "_kernel_regularizer">>,
    <<"bias_regularizer", "None", "_bias_regularizer">>,
    <<"activation", "'relu'", "_activation">>,
    <<"use_sync_bn", "False", "_use_sync_bn">>,
    <<"norm_momentum", "0.99", "_norm_momentum">>,
    <<"norm_epsilon", "0.001", "_norm_epsilon">>,
    <<"bn_trainable", "True", "_bn_trainable">>
  >>

\* BottleneckBlock.get_config: <<key, attribute>> for every entry of `config`.
BottleneckBlockConfig ==
  <<
    <<"filters", "_filters">>, <<"strides", "_strides">>,
    <<"dilation_rate", "_dilation_rate">>,
    <<"use_projection", "_use_projection">>, <<"se_ratio", "_se_ratio">>,
    <<"resnetd_shortcut", "_resnetd_shortcut">>,
    <<"stochastic_depth_drop_rate", "_stochastic_depth_drop_rate">>,
    <<"kernel_initializer", "_kernel_initializer">>,
    <<"kernel_regularizer", "_kernel_regularizer">>,
    <<"bias_regularizer", "_bias_regularizer">>,
    <<"activation", "_activation">>, <<"use_sync_bn", "_use_sync_bn">>,
    <<"norm_momentum", "_norm_momentum">>,
    <<"norm_epsilon", "_norm_epsilon">>, <<"bn_trainable", "_bn_trainable">>
  >>

\* InvertedBottleneckBlock.__init__: <<option, default, attribute>> for every named option.
InvertedBottleneckBlockInit ==
  <<
    <<"in_filters", Required, "_in_filters">>,
    <<"out_filters", Required, "_out_filters">>,
    <<"expand_ratio", Required, "_expand_ratio">>,
    <<"strides", Required, "_strides">>,
    <<"kernel_size", "3", "_kernel_size">>,
    <<"se_ratio", "None", "_se_ratio">>,
    <<"stochastic_depth_drop_rate", "None", "_stochastic_depth_drop_rate">>,
    <<"kernel_initializer", "'VarianceScaling'", "_kernel_initializer">>,
    <<"kernel_regularizer", "None", "_kernel_regularizer">>,
    <<"bias_regularizer", "None", "_bias_regularizer">>,
    <<"activation", "'relu'", "_activation">>,
    <<"se_inner_activation", "'relu'", "_se_inner_activation">>,
    <<"se_gating_activation", "'sigmoid'", "_se_gating_activation">>,
    <<"se_round_down_protect", "True", "_se_round_down_protect">>,
    <<"expand_se_in_filters", "False", "_expand_se_in_filters">>,
    <<"depthwise_activation", "None", "_depthwise_activation">>,
    <<"use_sync_bn", "False", "_use_sync_bn">>,
    <<"dilation_rate", "1", "_dilation_rate">>,
    <<"divisible_by", "1", "_divisible_by">>,
    <<"regularize_depthwise", "False", "_regularize_depthwise">>,
    <<"use_depthwise", "True", "_use_depthwise">>,
    <<"use_residual", "True", "_use_residual">>,
    <<"norm_momentum", "0.99", "_norm_momentum">>,
    <<"norm_epsilon", "0.001", "_norm_epsilon">>,
    <<"output_intermediate_endpoints", "False", "_output_intermediate_endpoints">>
  >>

\* InvertedBottleneckBlock.get_config: <<key, attribute>> for every entry of `config`.
InvertedBottleneckBlockConfig ==
  <<
    <<"in_filters", "_in_filters">>, <<"out_filters", "_out_filters">>,
    <<"expand_ratio", "_expand_ratio">>, <<"strides", "_strides">>,
    <<"kernel_size", "_kernel_size">>, <<"se_ratio", "_se_ratio">>,
    <<"divisible_by", "_divisible_by">>,
    <<"stochastic_depth_drop_rate", "_stochastic_depth_drop_rate">>,
    <<"kernel_initializer", "_kernel_initializer">>,
    <<"kernel_regularizer", "_kernel_regularizer">>,
    <<"bias_regularizer", "_bias_regularizer">>,
    <<"activation", "_activation">>,
    <<"se_inner_activation", "_se_inner_activation">>,
    <<"se_gating_activation", "_se_gating_activation">>,
    <<"se_round_down_protect", "_se_round_down_protect">>,
    <<"expand_se_in_filters", "_expand_se_in_filters">>,
    <<"depthwise_activation", "_depthwise_activation">>,
    <<"dilation_rate", "_dilation_rate">>, <<"use_sync_bn", "_use_sync_bn">>,
    <<"regularize_depthwise", "_regularize_depthwise">>,
    <<"use_depthwise", "_use_depthwise">>,
    <<"use_residual", "_use_residual">>,
    <<"norm_momentum", "_norm_momentum">>,
    <<"norm_epsilon", "_norm_epsilon">>,
    <<"output_intermediate_endpoints", "_output_intermediate_endpoints">>
  >>

\* ResidualInner.__init__: <<option, default, attribute>> for every named option.
ResidualInnerInit ==
  <<
    <<"filters", Required, "filters">>, <<"strides", Required, "strides">>,
    <<"kernel_initializer", "'VarianceScaling'", "_kernel_initializer">>,
    <<"kernel_regularizer", "None", "_kernel_regularizer">>,
    <<"activation", "'relu'", "_activation">>,
    <<"use_sync_bn", "False", "_use_sync_bn">>,
    <<"norm_momentum", "0.99", "_norm_momentum">>,
    <<"norm_epsilon", "0.001", "_norm_epsilon">>,
    <<"batch_norm_first", "True", "_batch_norm_first">>
  >>

\* ResidualInner.get_config: <<key, attribute>> for every entry of `config`.
ResidualInnerConfig ==
  <<
    <<"filters", "filters">>, <<"strides", "strides">>,
    <<"kernel_initializer", "_kernel_initializer">>,
    <<"kernel_regularizer", "_kernel_regularizer">>,
    <<"activation", "_activation">>, <<"use_sync_bn", "_use_sync_bn">>,
    <<"norm_momentum", "_norm_momentum">>,
    <<"norm_epsilon", "_norm_epsilon">>,
    <<"batch_norm_first", "_batch_norm_first">>
  >>

\* BottleneckResidualInner.__init__: <<option, default, attribute>> for every named option.
BottleneckResidualInnerInit ==
  <<
    <<"filters", Required, "filters">>, <<"strides", Required, "strides">>,
    <<"kernel_initializer", "'VarianceScaling'", "_kernel_initializer">>,
    <<"kernel_regularizer", "None", "_kernel_regularizer">>,
    <<"activation", "'relu'", "_activation">>,
    <<"use_sync_bn", "False", "_use_sync_bn">>,
    <<"norm_momentum", "0.99", "_norm_momentum">>,
    <<"norm_epsilon", "0.001", "_norm_epsilon">>,
    <<"batch_norm_first", "True", "_batch_norm_first">>
  >>

\* BottleneckResidualInner.get_config: <<key, attribute>> for every entry of `config`.
BottleneckResidualInnerConfig ==
  <<
    <<"filters", "filters">>, <<"strides", "strides">>,
    <<"kernel_initializer", "_kernel_initializer">>,
    <<"kernel_regularizer", "_kernel_regularizer">>,
    <<"activation", "_activation">>, <<"use_sync_bn", "_use_sync_bn">>,
    <<"norm_momentum", "_norm_momentum">>,
    <<"norm_epsilon", "_norm_epsilon">>,
    <<"batch_norm_first", "_batch_norm_first">>
  >>

\* ReversibleLayer.__init__: <<option, default, attribute>> for every named option.
ReversibleLayerInit ==
  <<
    <<"f", Required, "_f">>, <<"g", Required, "_g">>,
    <<"manual_grads", "True", "_manual_grads">>
  >>

\* ReversibleLayer.get_config: <<key, attribute>> for every entry of `config`.
ReversibleLayerConfig ==
  <<
    <<"f", "_f">>, <<"g", "_g">>, <<"manual_grads", "_manual_grads">>
  >>

\* DepthwiseSeparableConvBlock.__init__: <<option, default, attribute>> for every named option.
DepthwiseSeparableConvBlockInit ==
  <<
    <<"filters", Required, "_filters">>,
    <<"kernel_size", "3", "_kernel_size">>, <<"strides", "1", "_strides">>,
    <<"regularize_depthwise", "False", "_regularize_depthwise">>,
    <<"activation", "'relu6'", "_activation">>,
    <<"kernel_initializer", "'VarianceScaling'", "_kernel_initializer">>,
    <<"kernel_regularizer", "None", "_kernel_regularizer">>,
    <<"dilation_rate", "1", "_dilation_rate">>,
    <<"use_sync_bn", "False", "_use_sync_bn">>,
    <<"norm_momentum", "0.99", "_norm_momentum">>,
    <<"norm_epsilon", "0.001", "_norm_epsilon">>
  >>

\* DepthwiseSeparableConvBlock.get_config: <<key, attribute>> for every entry of `config`.
DepthwiseSeparableConvBlockConfig ==
  <<
    <<"filters", "_filters">>, <<"strides", "_strides">>,
    <<"regularize_depthwise", "_regularize_depthwise">>,
    <<"kernel_initializer", "_kernel_initializer">>,
    <<"kernel_regularizer", "_kernel_regularizer">>,
    <<"activation", "_activation">>, <<"use_sync_bn", "_use_sync_bn">>,
    <<"norm_momentum", "_norm_momentum">>, <<"norm_epsilon", "_norm_epsilon">>
  >>

\* TuckerConvBlock.__init__: <<option, default, attribute>> for every named option.
TuckerConvBlockInit ==
  <<
    <<"in_filters", Required, "_in_filters">>,
    <<"out_filters", Required, "_out_filters">>,
    <<"input_compression_ratio", Required, "_input_compression_ratio">>,
    <<"output_compression_ratio", Required, "_output_compression_ratio">>,
    <<"strides", Required, "_strides">>,
    <<"kernel_size", "3", "_kernel_size">>,
    <<"stochastic_depth_drop_rate", "None", "_stochastic_depth_drop_rate">>,
    <<"kernel_initializer", "'VarianceScaling'", "_kernel_initializer">>,
    <<"kernel_regularizer", "None", "_kernel_regularizer">>,
    <<"bias_regularizer", "None", "_bias_regularizer">>,
    <<"activation", "'relu'", "_activation">>,
    <<"use_sync_bn", "False", "_use_sync_bn">>,
    <<"divisible_by", "1", "_divisible_by">>,
    <<"use_residual", "True", "_use_residual">>,
    <<"norm_momentum", "0.99", "_norm_momentum">>,
    <<"norm_epsilon", "0.001", "_norm_epsilon">>
  >>

\* TuckerConvBlock.get_config: <<key, attribute>> for every entry of `config`.
TuckerConvBlockConfig ==
  <<
    <<"in_filters", "_in_filters">>, <<"out_filters", "_out_filters">>,
    <<"input_compression_ratio", "_input_compression_ratio">>,
    <<"output_compression_ratio", "_output_compression_ratio">>,
    <<"strides", "_strides">>, <<"kernel_size", "_kernel_size">>,
    <<"divisible_by", "_divisible_by">>,
    <<"stochastic_depth_drop_rate", "_stochastic_depth_drop_rate">>,
    <<"kernel_initializer", "_kernel_initializer">>,
    <<"kernel_regularizer", "_kernel_regularizer">>,
    <<"bias_regularizer", "_bias_regularizer">>,
    <<"activation", "_activation">>, <<"use_sync_bn", "_use_sync_bn">>,
    <<"use_residual", "_use_residual">>,
    <<"norm_momentum", "_norm_momentum">>, <<"norm_epsilon", "_norm_epsilon">>
  >>

\* LayerScale.__init__: <<option, default, attribute>> for every named option.
LayerScaleInit ==
  <<
    <<"init_values", Required, "gamma_init_value">>
  >>

\* TransformerEncoderBlock.__init__: <<option, default, attribute>> for every named option.
TransformerEncoderBlockInit ==
  <<
    <<"stochastic_depth_drop_rate", "0.0", "_stochastic_depth_drop_rate">>,
    <<"layer_scale_init_value", "0.0", "_layer_scale_init_value">>,
    <<"max_attention_inference_parallelism", "None", "_max_attention_inference_parallelism">>
  >>

\* TransformerEncoderBlock.get_config: <<key, attribute>> for every entry of `config`.
TransformerEncoderBlockConfig ==
  <<
    <<"stochastic_depth_drop_rate", "_stochastic_depth_drop_rate">>,
    <<"layer_scale_init_value", "_layer_scale_init_value">>,
    <<"max_attention_inference_parallelism", "_max_attention_inference_parallelism">>
  >>

\* TransformerScaffold.__init__: <<option, default, attribute>> for every named option.
TransformerScaffoldInit ==
  <<
    <<"stochastic_depth_drop_rate", "0.0", "_stochastic_depth_drop_rate">>,
    <<"return_attention_scores", "False", "_return_attention_scores">>,
    <<"ffn_has_residual_connection", "False", "_ffn_has_residual_connection">>,
    <<"max_attention_inference_parallelism", "None", "_max_attention_inference_parallelism">>
  >>

\* TransformerScaffold.get_config: <<key, attribute>> for every entry of `config`.
TransformerScaffoldConfig ==
  <<
    <<"stochastic_depth_drop_rate", "_stochastic_depth_drop_rate">>,
    <<"return_attention_scores", "_return_attention_scores">>,
    <<"ffn_has_residual_connection", "_ffn_has_residual_connection">>,
    <<"max_attention_inference_parallelism", "_max_attention_inference_parallelism">>
  >>

BlockClasses ==
  {"ResidualBlock", "BottleneckBlock", "InvertedBottleneckBlock",
   "ResidualInner", "BottleneckResidualInner", "ReversibleLayer",
   "DepthwiseSeparableConvBlock", "TuckerConvBlock", "LayerScale",
   "TransformerEncoderBlock", "TransformerScaffold"}

\* The named options of the constructor of a class.
BlockInit(class) ==
  CASE class = "ResidualBlock" -> ResidualBlockInit
    [] class = "BottleneckBlock" -> BottleneckBlockInit
    [] class = "InvertedBottleneckBlock" -> InvertedBottleneckBlockInit
    [] class = "ResidualInner" -> ResidualInnerInit
    [] class = "BottleneckResidualInner" -> BottleneckResidualInnerInit
    [] class = "ReversibleLayer" -> ReversibleLayerInit
    [] class = "DepthwiseSeparableConvBlock" -> DepthwiseSeparableConvBlockInit
    [] class = "TuckerConvBlock" -> TuckerConvBlockInit
    [] class = "LayerScale" -> LayerScaleInit
    [] class = "TransformerEncoderBlock" -> TransformerEncoderBlockInit
    [] class = "TransformerScaffold" -> TransformerScaffoldInit

\* The entries get_config of the class adds; LayerScale defines no
\* get_config.
BlockConfig(class) ==
  CASE class = "ResidualBlock" -> ResidualBlockConfig
    [] class = "BottleneckBlock" -> BottleneckBlockConfig
    [] class = "InvertedBottleneckBlock" -> InvertedBottleneckBlockConfig
    [] class = "ResidualInner" -> ResidualInnerConfig
    [] class = "BottleneckResidualInner" -> BottleneckResidualInnerConfig
    [] class = "ReversibleLayer" -> ReversibleLayerConfig
    [] class = "DepthwiseSeparableConvBlock" -> DepthwiseSeparableConvBlockConfig
    [] class = "TuckerConvBlock" -> TuckerConvBlockConfig
    [] class = "TransformerEncoderBlock" -> TransformerEncoderBlockConfig
    [] class = "TransformerScaffold" -> TransformerScaffoldConfig
    [] OTHER -> <<>>

Options(class) == {BlockInit(class)[i][1] : i \in 1..Len(BlockInit(class))}

RequiredOptions(class) ==
  {BlockInit(class)[i][1] : i \in {j \in 1..Len(BlockInit(class)) : BlockInit(class)[j][2] = Required}}

Default(class, option) ==
  LET init == BlockInit(class) IN
  init[CHOOSE i \in 1..Len(init) : init[i][1] = option][2]

\* The attribute the constructor stores the option in.
AttributeOf(class, option) ==
  LET init == BlockInit(class) IN
  init[CHOOSE i \in 1..Len(init) : init[i][1] = option][3]

\* Truth value of a Python value in a condition.
Truthy(v) == v \notin {"None", "False", "0", "0.0", "''"}

\* tf.keras.initializers.get: the initializer named by a string, the
\* argument itself when it is an initializer already.
InitializersGet(v) ==
  CASE v = "'VarianceScaling'" -> "<VarianceScaling>"
    [] v = "'HeNormal'" -> "<HeNormal>"
    [] OTHER -> v

\* tf.keras.activations.get: the function named by a string.
ActivationsGet(v) ==
  CASE v = "'relu'" -> "<function relu>"
    [] v = "'swish'" -> "<function swish>"
    [] OTHER -> v

\* The value __init__ stores for an option, args being the arguments with
\* the defaults filled in.
AttributeValue(class, option, args) ==
  CASE class \in {"ResidualInner", "BottleneckResidualInner"}
         /\ option = "kernel_initializer" -> InitializersGet(args[option])
    [] class \in {"ResidualInner", "BottleneckResidualInner"}
         /\ option = "activation" -> ActivationsGet(args[option])
    [] class = "InvertedBottleneckBlock" /\ option = "depthwise_activation"
         /\ ~Truthy(args[option]) -> args["activation"]
    [] OTHER -> args[option]

\* tf.keras.layers.Layer.get_config: the entries of the base class.
BaseConfig == [name |-> "'block'", trainable |-> "True", dtype |-> "'float32'"]

\* class(**kwargs): TypeError when an option without default is not given or
\* a keyword is neither an option nor one of the base class.
Construct(class, kwargs) ==
  IF \/ ~(RequiredOptions(class) \subseteq DOMAIN kwargs)
     \/ ~(DOMAIN kwargs \subseteq Options(class) \cup DOMAIN BaseConfig)
  THEN [class |-> class, raised |-> "TypeError"]
  ELSE LET args == [o \in Options(class) |->
                      IF o \in DOMAIN kwargs THEN kwargs[o] ELSE Default(class, o)]
           OptionOf(a) == CHOOSE o \in Options(class) : AttributeOf(class, o) = a
       IN [class |-> class, raised |-> "",
           attrs |-> [a \in {AttributeOf(class, o) : o \in Options(class)} |->
                        AttributeValue(class, OptionOf(a), args)]]

\* get_config of a class that defines one: the entries of the base class,
\* then the entries of `config`.
GetConfig(inst) ==
  LET items == BlockConfig(inst.class)
      keys == {items[i][1] : i \in 1..Len(items)}
      AttrOfKey(k) == items[CHOOSE i \in 1..Len(items) : items[i][1] = k][2]
  IN [k \in keys \cup DOMAIN BaseConfig |->
        IF k \in keys THEN inst.attrs[AttrOfKey(k)] ELSE BaseConfig[k]]

\* What get_config inherited from tf.keras.layers.Layer does for a class
\* whose constructor takes options, depending on the Keras release: it
\* returns the entries of the base class, it raises NotImplementedError, or
\* it adds the constructor arguments it recorded.
InheritedGetConfigOutcomes == {"base", "NotImplementedError", "auto"}

InheritedGetConfig(inst, outcome) ==
  IF outcome = "auto"
  THEN [k \in Options(inst.class) \cup DOMAIN BaseConfig |->
          IF k \in Options(inst.class) THEN inst.attrs[AttributeOf(inst.class, k)]
          ELSE BaseConfig[k]]
  ELSE BaseConfig

\* Every subset of S of at most n elements.
RECURSIVE SubsetsUpTo(_, _)
SubsetsUpTo(S, n) ==
  IF n = 0 THEN {{}}
  ELSE LET smaller == SubsetsUpTo(S, n - 1) IN
       smaller \cup {T \cup {o} : T \in smaller, o \in S}

\* A value for an option without default.
SampleValue(option) ==
  CASE option = "f" -> "<ResidualInner f>"
    [] option = "g" -> "<ResidualInner g>"
    [] option = "init_values" -> "0.0001"
    [] OTHER -> "2"

\* A value different from the default.
OtherValue(default) ==
  CASE default = "False" -> "True"
    [] default = "True" -> "False"
    [] default = "None" -> "0.25"
    [] default = "'VarianceScaling'" -> "'HeNormal'"
    [] default = "'relu'" -> "'swish'"
    [] default = "'relu6'" -> "'relu'"
    [] default = "'sigmoid'" -> "'hard_sigmoid'"
    [] default = "0.99" -> "0.9"
    [] default = "0.001" -> "1e-05"
    [] default = "0.0" -> "0.1"
    [] default = "3" -> "5"
    [] default = "1" -> "2"

\* The keyword arguments of the constructor calls considered: every option
\* without default, and at most MaxOverrides of the others with a value
\* different from the default.
ConstructorArguments(class) ==
  {[o \in RequiredOptions(class) \cup given |->
      IF o \in RequiredOptions(class) THEN SampleValue(o)
      ELSE OtherValue(Default(class, o))] :
     given \in SubsetsUpTo(Options(class) \ RequiredOptions(class), MaxOverrides)}

\* block = class(**kwargs)
ConstructBlock(class, kwargs) ==
  /\ stage = "none"
  /\ block' = Construct(class, kwargs)
  /\ stage' = IF block'.raised = "" THEN "constructed" ELSE "construct_error"
  /\ result' = NoBlock
  /\ UNCHANGED layerVars

\* config = block.get_config()
ExportConfig(outcome) ==
  /\ stage = "constructed"
  /\ IF BlockConfig(block.class) # <<>>
     THEN /\ outcome = "base"
          /\ result' = GetConfig(block)
          /\ stage' = "exported"
     ELSE /\ result' = InheritedGetConfig(block, outcome)
          /\ stage' = IF outcome = "NotImplementedError" THEN "export_error"
                      ELSE "exported"
  /\ UNCHANGED <<block>>
  /\ UNCHANGED layerVars

\* rebuilt = class.from_config(config), that is class(**config)
FromConfig ==
  /\ stage = "exported"
  /\ \E rebuilt \in {Construct(block.class, result)} :
       /\ result' = [config |-> result, rebuilt |-> rebuilt]
       /\ stage' = IF rebuilt.raised = "" THEN "rebuilt" ELSE "rebuild_error"
  /\ UNCHANGED <<block>>
  /\ UNCHANGED layerVars

\* No reversible layer is under consideration.
NoLayer ==
  /\ f = NoBlock
  /\ g = NoBlock
  /\ manual_grads = FALSE
  /\ Constructed

InitConfig == NoLayer

NextConfig ==
  \/ \E class \in BlockClasses : \E kwargs \in ConstructorArguments(class) :
       ConstructBlock(class, kwargs)
  \/ \E outcome \in InheritedGetConfigOutcomes : ExportConfig(outcome)
  \/ FromConfig

SpecConfig == InitConfig /\ [][NextConfig]_vars

(***************************************************************************)
(* The call of the residual, bottleneck, inverted bottleneck and Tucker    *)
(* blocks.  A block is a record of its class and of the options its call   *)
(* depends on; squeeze-and-excitation is left out (se_ratio = None).       *)
(* Normalization layers keep the shape and are taken at their initial      *)
(* statistics, where they return their input.                              *)
(***************************************************************************)
MaxExpandRatio == 2   \* expand_ratio of an inverted bottleneck ranges over 1..MaxExpandRatio

\* stochastic_depth_drop_rate: None, the integer 0, the float 0.0, or 0.5,
\* as [kind, percent].
DropRates ==
  {[kind |-> "None", percent |-> 0], [kind |-> "int", percent |-> 0],
   [kind |-> "float", percent |-> 0], [kind |-> "float", percent |-> 50]}

\* Mutant: the drop rate is tested with `is not None`.
RateIsNotNone(rate) == rate.kind # "None"

\* `if self._stochastic_depth_drop_rate:` -- None, 0 and 0.0 are false.
RateIsTrue(rate) == rate.kind # "None" /\ rate.percent # 0

\* nn_layers.StochasticDepth(rate)(x, training): outside training the
\* input; in training the input is dropped (zeros) or kept and divided by
\* the keep probability.
StochasticDepth(rate, x, training, keep) ==
  IF IsRaised(x) \/ ~training THEN x
  ELSE IF ~keep /\ rate.percent > 0 THEN Tensor(x.h, Zeros(Len(x.ch)))
  ELSE Tensor(x.h, [k \in 1..Len(x.ch) |-> (x.ch[k] * 100) \div (100 - rate.percent)])

\* The stochastic-depth stage of a block whose build leaves
\* self._stochastic_depth = None when the rate is false.
StochasticDepthStage(rate, x, training, keep) ==
  IF RateIsTrue(rate) THEN StochasticDepth(rate, x, training, keep) ELSE x

\* tf.keras.layers.Conv2D(filters, strides) with 'same' padding or with a
\* 1x1 kernel: every output channel is a weighted sum of the input channels.
Conv2D(x, filters, strides) ==
  IF IsRaised(x) THEN Raised
  ELSE Tensor(ConvSameSize(x.h, strides),
              [k \in 1..filters |->
                 SeqSum([j \in 1..Len(x.ch) |-> (1 + ((j + k) % 2)) * x.ch[j]])])

\* tf.keras.layers.DepthwiseConv2D(strides, padding='same', depth_multiplier=1)
DepthwiseConv2D(x, strides) ==
  IF IsRaised(x) THEN Raised
  ELSE Tensor(ConvSameSize(x.h, strides), [k \in 1..Len(x.ch) |-> 2 * x.ch[k]])

\* tf.keras.layers.AveragePooling2D(pool_size=2, strides, padding='same')
AveragePooling2D(x, strides) ==
  IF IsRaised(x) THEN Raised ELSE Tensor(ConvSameSize(x.h, strides), x.ch)

\* The activation 'relu'.
Relu(x) ==
  IF IsRaised(x) THEN Raised
  ELSE Tensor(x.h, [k \in 1..Len(x.ch) |-> IF x.ch[k] > 0 THEN x.ch[k] ELSE 0])

\* No message: the call raised nothing, or an error of the framework.
NoMessage == [text |-> "", class |-> "", length |-> 0]

\* A call returns the output tensor alone.
NoAux == [pair |-> FALSE, name |-> "", keys |-> {}]

\* A call returns the pair of the output tensor and the auxiliary output
\* `name`, a dictionary of the given keys or a tensor (no keys).
Aux(name, keys) == [pair |-> TRUE, name |-> name, keys |-> keys]

\* What a call did: the error raised if any, the output tensor, whether the
\* projection shortcut ran, for every stochastic-depth stage the value before
\* it and the value entering the addition, whether build instantiated a
\* StochasticDepth layer, the sub-layers invoked in order, the value of the
\* main branch before its stochastic-depth stage, and the form of the value
\* returned.
CallResult(inputs, training, raised, message, out, projection, additions, stochastic_depth, invoked, main, returned) ==
  [inputs |-> inputs, training |-> training, raised |-> raised,
   message |-> message, out |-> out, projection |-> projection,
   additions |-> additions, stochastic_depth |-> stochastic_depth,
   invoked |-> invoked, main |-> main,
   returned |-> IF raised = "" THEN returned ELSE NoAux]

\* The result of a call of a convolutional block whose last sum is `sum`.
ConvResult(inputs, training, sum, out, projection, additions, rate, invoked, main, returned) ==
  CallResult(inputs, training,
             IF IsRaised(sum) THEN "InvalidArgumentError" ELSE "", NoMessage,
             IF IsRaised(sum) THEN Raised ELSE out,
             projection, additions, RateIsTrue(rate), invoked, main, returned)

\* se_ratio: None, 0, -0.5, 0.25, 1 or 1.5, as [kind, percent].
NoSeRatio == [kind |-> "None", percent |-> 0]

SeRatios ==
  {NoSeRatio} \cup {[kind |-> "float", percent |-> p] : p \in {0, -50, 25, 100, 150}}

\* Mutant: every positive ratio builds the layer.
SeRatioIsPositive(blk) ==
  blk.se_ratio.kind # "None" /\ blk.se_ratio.percent > 0

\* `if self._se_ratio and self._se_ratio > 0 and self._se_ratio <= 1:` of
\* build, under which self._squeeze_excitation is a layer and not None.
HasSqueezeExcitation(blk) ==
  /\ blk.se_ratio.kind # "None" /\ blk.se_ratio.percent # 0
  /\ blk.se_ratio.percent > 0
  /\ blk.se_ratio.percent <= 100

\* nn_layers.SqueezeExcitation: every channel is scaled by a gate computed
\* from all channels; the shape is kept.
SqueezeExcitation(x) ==
  IF IsRaised(x) THEN Raised
  ELSE Tensor(x.h, [k \in 1..Len(x.ch) |-> x.ch[k] * (1 + SeqSum(x.ch))])

\* `if self._squeeze_excitation: x = self._squeeze_excitation(x)` of call
SqueezeExcitationStage(blk, x) ==
  IF HasSqueezeExcitation(blk) THEN SqueezeExcitation(x) ELSE x

\* The sub-layers a convolutional block's call records as invoked.
ConvInvoked(blk) ==
  IF HasSqueezeExcitation(blk) THEN <<"squeeze_excitation">> ELSE <<>>

\* Mutant: the projection convolution has stride 1.
ProjectionShortcutUnstrided(blk, shortcut) ==
  IF blk.class = "ResidualBlock" THEN Conv2D(shortcut, blk.filters, 1)
  ELSE Conv2D(shortcut, blk.filters * 4, 1)

\* The projection shortcut of ResidualBlock (_shortcut, _norm0) and of
\* BottleneckBlock (_shortcut, or _shortcut0 and _shortcut1, then _norm0).
ProjectionShortcut(blk, shortcut) ==
  IF blk.class = "ResidualBlock" THEN Conv2D(shortcut, blk.filters, blk.strides)
  ELSE IF blk.resnetd_shortcut
       THEN Conv2D(AveragePooling2D(shortcut, blk.strides), blk.filters * 4, 1)
       ELSE Conv2D(shortcut, blk.filters * 4, blk.strides)

\* ResidualBlock.build and call
ResidualBlockCall(blk, inputs, training, keep) ==
  LET shortcut == IF blk.use_projection THEN ProjectionShortcut(blk, inputs)
                  ELSE inputs
      x1 == Relu(Conv2D(inputs, blk.filters, blk.strides))
      x2 == SqueezeExcitationStage(blk, Conv2D(x1, blk.filters, 1))
      x3 == StochasticDepthStage(blk.stochastic_depth_drop_rate, x2, training, keep)
      sum == Add(x3, shortcut)
  IN ConvResult(inputs, training, sum, Relu(sum), blk.use_projection,
                << [branch |-> x2, entering |-> x3] >>,
                blk.stochastic_depth_drop_rate, ConvInvoked(blk), x2, NoAux)

\* BottleneckBlock.build and call
BottleneckBlockCall(blk, inputs, training, keep) ==
  LET shortcut == IF blk.use_projection THEN ProjectionShortcut(blk, inputs)
                  ELSE inputs
      x1 == Relu(Conv2D(inputs, blk.filters, 1))
      x2 == Relu(Conv2D(x1, blk.filters, blk.strides))
      x3 == SqueezeExcitationStage(blk, Conv2D(x2, blk.filters * 4, 1))
      x4 == StochasticDepthStage(blk.stochastic_depth_drop_rate, x3, training, keep)
      sum == Add(x4, shortcut)
  IN ConvResult(inputs, training, sum, Relu(sum), blk.use_projection,
                << [branch |-> x3, entering |-> x4] >>,
                blk.stochastic_depth_drop_rate, ConvInvoked(blk), x3, NoAux)

\* nn_layers.make_divisible(value, divisor, round_down_protect) for the
\* value num / den: the multiple of divisor nearest to the value, at least
\* divisor, raised by divisor when it is below 90% of the value.
MakeDivisible(num, den, divisor, round_down_protect) ==
  LET nearest == (((2 * num + divisor * den) \div (2 * den)) \div divisor) * divisor
      new_value == IF nearest > divisor THEN nearest ELSE divisor
  IN IF round_down_protect /\ 10 * new_value * den < 9 * num
     THEN new_value + divisor ELSE new_value

\* Mutant: the stride is not looked at.
UseResidualIgnoringStrides(blk) ==
  blk.use_residual /\ blk.in_filters = blk.out_filters

\* The test under which InvertedBottleneckBlock.call and
\* TuckerConvBlock.call add the input to the main branch.
UseResidual(blk) ==
  blk.use_residual /\ blk.in_filters = blk.out_filters /\ blk.strides = 1

\* Mutant: the key 'depthwise' is always set.
EndpointsWithDepthwise(blk) == {"depthwise"}

\* The keys of `endpoints` when InvertedBottleneckBlock.call returns: the
\* depthwise stage sets endpoints['depthwise'].
Endpoints(blk) == IF blk.use_depthwise THEN {"depthwise"} ELSE {}

\* InvertedBottleneckBlock.build and call
InvertedBottleneckBlockCall(blk, inputs, training, keep) ==
  LET expand_filters == MakeDivisible(blk.in_filters * blk.expand_ratio, 1, 1, TRUE)
      expand_stride == IF blk.use_depthwise THEN 1 ELSE blk.strides
      x0 == IF blk.expand_ratio > 1
            THEN Relu(Conv2D(inputs, expand_filters, expand_stride))
            ELSE inputs
      x1 == IF blk.use_depthwise THEN Relu(DepthwiseConv2D(x0, blk.strides)) ELSE x0
      x2 == Conv2D(SqueezeExcitationStage(blk, x1), blk.out_filters, 1)
      residual == UseResidual(blk)
      x3 == StochasticDepthStage(blk.stochastic_depth_drop_rate, x2, training, keep)
      sum == IF residual THEN Add(x3, inputs) ELSE x2
  IN ConvResult(inputs, training, sum, sum, FALSE,
                IF residual THEN << [branch |-> x2, entering |-> x3] >> ELSE <<>>,
                blk.stochastic_depth_drop_rate, ConvInvoked(blk), x2,
                IF blk.output_intermediate_endpoints
                THEN Aux("endpoints", Endpoints(blk)) ELSE NoAux)

\* TuckerConvBlock.build and call; the compression ratios are in percent.
TuckerConvBlockCall(blk, inputs, training, keep) ==
  LET input_compressed_filters ==
        MakeDivisible(blk.in_filters * blk.input_compression_ratio, 100, 1, FALSE)
      output_compressed_filters ==
        MakeDivisible(blk.out_filters * blk.output_compression_ratio, 100, 1, FALSE)
      x0 == Relu(Conv2D(inputs, input_compressed_filters, 1))
      x1 == Relu(Conv2D(x0, output_compressed_filters, blk.strides))
      x2 == Conv2D(x1, blk.out_filters, 1)
      residual == UseResidual(blk)
      x3 == StochasticDepthStage(blk.stochastic_depth_drop_rate, x2, training, keep)
      sum == IF residual THEN Add(x3, inputs) ELSE x2
  IN ConvResult(inputs, training, sum, sum, FALSE,
                IF residual THEN << [branch |-> x2, entering |-> x3] >> ELSE <<>>,
                blk.stochastic_depth_drop_rate, <<>>, x2, NoAux)

(***************************************************************************)
(* The call of TransformerEncoderBlock and TransformerScaffold.  A tensor  *)
(* [h, ch] has sequence length h and hidden values ch.  The sub-layers the *)
(* parent classes build (attention, dense, normalization, dropout) keep    *)
(* the shape of the query; dropout is at its default rate 0.               *)
(***************************************************************************)
MaxListLength == 4   \* `inputs` given as a list or tuple has 0..MaxListLength elements

\* The value None where a tensor may stand.
NoTensor == [h |-> -1, ch |-> <<>>]

\* Mutant: a list of one element is taken as the input tensor.
UnpackInputsOfOne(class, inputs) ==
  IF inputs.kind \in {"list", "tuple"}
  THEN IF Len(inputs.items) = 2
       THEN [raised |-> "", message |-> NoMessage, input_tensor |-> inputs.items[1],
             key_value |-> NoTensor, attention_mask |-> inputs.items[2]]
       ELSE IF Len(inputs.items) = 3
       THEN [raised |-> "", message |-> NoMessage, input_tensor |-> inputs.items[1],
             key_value |-> inputs.items[2], attention_mask |-> inputs.items[3]]
       ELSE IF Len(inputs.items) = 1
       THEN [raised |-> "", message |-> NoMessage, input_tensor |-> inputs.items[1],
             key_value |-> NoTensor, attention_mask |-> NoTensor]
       ELSE [raised |-> "ValueError",
             message |-> [text |-> "Unexpected inputs to %s with length at %d",
                          class |-> class, length |-> Len(inputs.items)],
             input_tensor |-> NoTensor, key_value |-> NoTensor,
             attention_mask |-> NoTensor]
  ELSE [raised |-> "", message |-> NoMessage, input_tensor |-> inputs.items[1],
        key_value |-> NoTensor, attention_mask |-> NoTensor]

\* The first statement of both call methods: `inputs` is a list or tuple of
\* 2 or 3 tensors, or a tensor; a bare tensor is held as the only item.
UnpackInputs(class, inputs) ==
  IF inputs.kind \in {"list", "tuple"}
  THEN IF Len(inputs.items) = 2
       THEN [raised |-> "", message |-> NoMessage, input_tensor |-> inputs.items[1],
             key_value |-> NoTensor, attention_mask |-> inputs.items[2]]
       ELSE IF Len(inputs.items) = 3
       THEN [raised |-> "", message |-> NoMessage, input_tensor |-> inputs.items[1],
             key_value |-> inputs.items[2], attention_mask |-> inputs.items[3]]
       ELSE [raised |-> "ValueError",
             message |-> [text |-> "Unexpected inputs to %s with length at %d",
                          class |-> class, length |-> Len(inputs.items)],
             input_tensor |-> NoTensor, key_value |-> NoTensor,
             attention_mask |-> NoTensor]
  ELSE [raised |-> "", message |-> NoMessage, input_tensor |-> inputs.items[1],
        key_value |-> NoTensor, attention_mask |-> NoTensor]

\* t[:, 0:output_range, :]
SliceRange(t, output_range) ==
  Tensor(IF t.h < output_range THEN t.h ELSE output_range, t.ch)

\* self._attention_layer(query, value): one output row per query row.
AttentionLayer(query, value) ==
  Tensor(query.h, [k \in 1..Len(query.ch) |-> query.ch[k] + ChannelAt(value, k) + 1])

\* A dense layer of the feed-forward part.
Dense(x) == Tensor(x.h, [k \in 1..Len(x.ch) |-> 2 * x.ch[k] + 1])

\* A layer normalization: the shape is kept.
LayerNorm(x) == x

\* LayerScale.call: inputs * gamma, gamma at its initial value.
LayerScaleCall(init_values, inputs) ==
  Tensor(inputs.h, [k \in 1..Len(inputs.ch) |-> inputs.ch[k] * init_values])

\* self._layer_scale_attn and self._layer_scale_mlp as build leaves them.
LayerScaleStage(blk, x) ==
  IF blk.layer_scale_init_value # 0 THEN LayerScaleCall(blk.layer_scale_init_value, x)
  ELSE x

\* self._stochastic_depth of the transformer blocks as build leaves it: a
\* StochasticDepth layer, or tf.identity when the rate is false.
TransformerStochasticDepth(rate, x, training, keep) ==
  IF RateIsTrue(rate) THEN StochasticDepth(rate, x, training, keep) ELSE x

\* The form of the value both transformer calls return: the output with the
\* attention scores when self._return_attention_scores is set.
AttentionScores(blk) ==
  IF blk.return_attention_scores THEN Aux("attention_scores", {}) ELSE NoAux

\* TransformerEncoderBlock.build and call; output_range 0 stands for None,
\* and self._output_range is None.  Every residual addition is recorded with
\* the value given to stochastic depth (branch), the value it returned
\* (entering), the block-level skip value (shortcut), the sub-layer output
\* after layer scale (sublayer) and the sum.
TransformerEncoderBlockCall(blk, inputs, output_range, training, keeps) ==
  LET un == UnpackInputs(blk.class, inputs)
      rate == blk.stochastic_depth_drop_rate
      ranged == output_range # 0
      source_tensor == IF ranged THEN SliceRange(un.input_tensor, output_range)
                       ELSE un.input_tensor
      input_tensor == IF blk.norm_first THEN LayerNorm(un.input_tensor)
                      ELSE un.input_tensor
      key_value_given == un.key_value # NoTensor
      key_value == IF key_value_given
                   THEN (IF blk.norm_first THEN LayerNorm(un.key_value)
                         ELSE un.key_value)
                   ELSE input_tensor
      target_tensor == IF ranged THEN SliceRange(input_tensor, output_range)
                       ELSE input_tensor
      attended == LayerScaleStage(blk, AttentionLayer(target_tensor, key_value))
      dropped1 == TransformerStochasticDepth(rate, attended, training, keeps[1])
      attention_sum == IF blk.use_query_residual
                       THEN Add(IF blk.norm_first THEN source_tensor ELSE target_tensor,
                                dropped1)
                       ELSE attended
      source_attention_output == attention_sum
      attention_output == LayerNorm(attention_sum)
      layer_output == LayerScaleStage(blk, Dense(Relu(Dense(attention_output))))
      dropped2 == TransformerStochasticDepth(
                    rate, IF blk.norm_first THEN layer_output ELSE attention_output,
                    training, keeps[2])
      out == IF blk.norm_first THEN Add(source_attention_output, dropped2)
             ELSE LayerNorm(Add(layer_output, dropped2))
      additions ==
        (IF blk.use_query_residual
         THEN << [branch |-> attended, entering |-> dropped1,
                  shortcut |-> IF blk.norm_first THEN source_tensor ELSE target_tensor,
                  sublayer |-> attended, sum |-> attention_sum] >>
         ELSE <<>>)
        \o << [branch |-> IF blk.norm_first THEN layer_output ELSE attention_output,
               entering |-> dropped2,
               shortcut |-> IF blk.norm_first THEN source_attention_output
                            ELSE attention_output,
               sublayer |-> layer_output,
               sum |-> IF blk.norm_first THEN Add(source_attention_output, dropped2)
                       ELSE Add(layer_output, dropped2)] >>
      invoked ==
        (IF blk.norm_first
         THEN <<"attention_layer_norm">>
              \o (IF key_value_given THEN <<"attention_layer_norm">> ELSE <<>>)
         ELSE <<>>)
        \o <<"attention_layer", "attention_dropout", "layer_scale_attn">>
        \o (IF blk.use_query_residual THEN <<"stochastic_depth">> ELSE <<>>)
        \o (IF blk.norm_first THEN <<"output_layer_norm">>
            ELSE <<"attention_layer_norm">>)
        \o <<"intermediate_dense", "intermediate_activation_layer",
             "inner_dropout_layer", "output_dense", "output_dropout",
             "layer_scale_mlp", "stochastic_depth">>
        \o (IF blk.norm_first THEN <<>> ELSE <<"output_layer_norm">>)
  IN IF un.raised # ""
     THEN CallResult(inputs, training, un.raised, un.message, Raised, FALSE, <<>>,
                     RateIsTrue(rate), <<>>, Raised, NoAux)
     ELSE CallResult(inputs, training,
                     IF IsRaised(out) THEN "InvalidArgumentError" ELSE "",
                     NoMessage, out, FALSE, additions, RateIsTrue(rate), invoked,
                     layer_output, AttentionScores(blk))

\* Mutant: the error is raised whenever the feed-forward block has its own
\* residual connection.
FfnResidualErrorAlways(blk) == blk.ffn_has_residual_connection

\* The test under which TransformerScaffold.call raises its ValueError: in
\* the norm_first branch, `if self._ffn_has_residual_connection:`.
FfnResidualError(blk) == blk.norm_first /\ blk.ffn_has_residual_connection

\* TransformerScaffold.build and call, with the feed-forward block of the
\* parent class (self._feedforward_block is None).
TransformerScaffoldCall(blk, inputs, training, keeps) ==
  LET un == UnpackInputs(blk.class, inputs)
      rate == blk.stochastic_depth_drop_rate
      source_tensor == un.input_tensor
      input_tensor == IF blk.norm_first THEN LayerNorm(un.input_tensor)
                      ELSE un.input_tensor
      key_value == IF un.key_value = NoTensor THEN input_tensor ELSE un.key_value
      attended == AttentionLayer(input_tensor, key_value)
      dropped1 == TransformerStochasticDepth(rate, attended, training, keeps[1])
      source_attention_output == Add(source_tensor, dropped1)
      attention_output == IF blk.norm_first THEN LayerNorm(source_attention_output)
                          ELSE LayerNorm(Add(input_tensor, dropped1))
      layer_output == Dense(Relu(Dense(attention_output)))
      dropped2 == TransformerStochasticDepth(rate, layer_output, training, keeps[2])
      norm_first_residual == FfnResidualError(blk)
      out == IF blk.norm_first THEN Add(source_attention_output, dropped2)
             ELSE IF blk.ffn_has_residual_connection THEN dropped2
             ELSE LayerNorm(Add(attention_output, dropped2))
      first == <<"attention_layer", "attention_dropout", "stochastic_depth">>
               \o (IF blk.norm_first THEN <<"output_layer_norm">>
                   ELSE <<"attention_layer_norm">>)
               \o <<"intermediate_dense", "intermediate_activation_layer",
                    "output_dense", "output_dropout">>
      invoked ==
        (IF blk.norm_first THEN <<"attention_layer_norm">> ELSE <<>>)
        \o first
        \o (IF norm_first_residual THEN <<>> ELSE <<"stochastic_depth">>)
        \o (IF blk.norm_first \/ blk.ffn_has_residual_connection THEN <<>>
            ELSE <<"output_layer_norm">>)
  IN IF un.raised # ""
     THEN CallResult(inputs, training, un.raised, un.message, Raised, FALSE, <<>>,
                     RateIsTrue(rate), <<>>, Raised, NoAux)
     ELSE IF norm_first_residual
     THEN CallResult(inputs, training, "ValueError",
                     [text |-> "In the case of norm_first, the residual connection should be done in the TransformerScaffold call function",
                      class |-> "", length |-> 0],
                     Raised, FALSE, << [branch |-> attended, entering |-> dropped1] >>,
                     RateIsTrue(rate), invoked, layer_output, NoAux)
     ELSE CallResult(inputs, training,
                     IF IsRaised(out) THEN "InvalidArgumentError" ELSE "",
                     NoMessage, out, FALSE,
                     << [branch |-> attended, entering |-> dropped1],
                        [branch |-> layer_output, entering |-> dropped2] >>,
                     RateIsTrue(rate), invoked, layer_output, AttentionScores(blk))

(***************************************************************************)
(* The blocks and inputs drawn, and the state machine of one block: it is  *)
(* constructed, then called once.                                          *)
(***************************************************************************)
ResidualBlocks ==
  [class : {"ResidualBlock"}, filters : 1..MaxFilters, strides : 1..MaxStride,
   use_projection : BOOLEAN, se_ratio : {NoSeRatio},
   stochastic_depth_drop_rate : DropRates]

BottleneckBlocks ==
  [class : {"BottleneckBlock"}, filters : 1..MaxFilters, strides : 1..MaxStride,
   use_projection : BOOLEAN, resnetd_shortcut : BOOLEAN, se_ratio : {NoSeRatio},
   stochastic_depth_drop_rate : DropRates]

InvertedBottleneckBlocks ==
  [class : {"InvertedBottleneckBlock"}, in_filters : 1..MaxFilters,
   out_filters : 1..MaxFilters, expand_ratio : 1..MaxExpandRatio,
   strides : 1..MaxStride, use_depthwise : BOOLEAN, use_residual : BOOLEAN,
   output_intermediate_endpoints : BOOLEAN, se_ratio : {NoSeRatio},
   stochastic_depth_drop_rate : DropRates]

TuckerConvBlocks ==
  [class : {"TuckerConvBlock"}, in_filters : 1..MaxFilters,
   out_filters : 1..MaxFilters, input_compression_ratio : {50, 100},
   output_compression_ratio : {50, 100}, strides : 1..MaxStride,
   use_residual : BOOLEAN, stochastic_depth_drop_rate : DropRates]

TransformerEncoderBlocks ==
  [class : {"TransformerEncoderBlock"}, norm_first : BOOLEAN,
   use_query_residual : BOOLEAN, layer_scale_init_value : {0, 2},
   return_attention_scores : BOOLEAN, stochastic_depth_drop_rate : DropRates]

TransformerScaffolds ==
  [class : {"TransformerScaffold"}, norm_first : BOOLEAN,
   ffn_has_residual_connection : BOOLEAN, return_attention_scores : BOOLEAN,
   stochastic_depth_drop_rate : DropRates]

CallableBlocks ==
  ResidualBlocks \cup BottleneckBlocks \cup InvertedBottleneckBlocks
    \cup TuckerConvBlocks \cup TransformerEncoderBlocks \cup TransformerScaffolds

\* Feature maps of n channels.
FeatureMaps(n) ==
  {PatternTensor(h, n, a, a) : h \in 1..MaxSize, a \in 0..MaxValue}

\* The inputs of a convolutional block: any channel count for the residual
\* and bottleneck blocks, in_filters channels for the others.
ConvInputs(blk) ==
  IF blk.class \in {"ResidualBlock", "BottleneckBlock"}
  THEN UNION {FeatureMaps(n) : n \in 1..MaxChannels}
  ELSE FeatureMaps(blk.in_filters)

\* The inputs of a transformer block: a tensor, or a list or tuple of
\* tensors.
TransformerInputs ==
  {[kind |-> "tensor", items |-> <<t>>] : t \in FeatureMaps(2)}
    \cup {[kind |-> kind, items |-> [i \in 1..n |-> t]] :
            kind \in {"list", "tuple"}, n \in 0..MaxListLength, t \in FeatureMaps(2)}

\* block(inputs, training=training) for a convolutional block
ConvBlockCall(inputs, training, keep) ==
  /\ stage = "constructed"
  /\ block.class \in {"ResidualBlock", "BottleneckBlock",
                      "InvertedBottleneckBlock", "TuckerConvBlock"}
  /\ inputs \in ConvInputs(block)
  /\ result' = CASE block.class = "ResidualBlock" ->
                      ResidualBlockCall(block, inputs, training, keep)
                 [] block.class = "BottleneckBlock" ->
                      BottleneckBlockCall(block, inputs, training, keep)
                 [] block.class = "InvertedBottleneckBlock" ->
                      InvertedBottleneckBlockCall(block, inputs, training, keep)
                 [] block.class = "TuckerConvBlock" ->
                      TuckerConvBlockCall(block, inputs, training, keep)
  /\ stage' = IF result'.raised = "" THEN "called" ELSE "call_error"
  /\ UNCHANGED <<block>>
  /\ UNCHANGED layerVars

\* block(inputs, output_range=output_range, training=training)
EncoderBlockCall(inputs, output_range, training, keeps) ==
  /\ stage = "constructed"
  /\ block.class = "TransformerEncoderBlock"
  /\ result' = TransformerEncoderBlockCall(block, inputs, output_range, training, keeps)
  /\ stage' = IF result'.raised = "" THEN "called" ELSE "call_error"
  /\ UNCHANGED <<block>>
  /\ UNCHANGED layerVars

\* block(inputs, training=training)
ScaffoldCall(inputs, training, keeps) ==
  /\ stage = "constructed"
  /\ block.class = "TransformerScaffold"
  /\ result' = TransformerScaffoldCall(block, inputs, training, keeps)
  /\ stage' = IF result'.raised = "" THEN "called" ELSE "call_error"
  /\ UNCHANGED <<block>>
  /\ UNCHANGED layerVars

InitBlocks ==
  /\ f = NoBlock
  /\ g = NoBlock
  /\ manual_grads = FALSE
  /\ fNonTrainable = <<0, 1>>
  /\ gNonTrainable = <<0, 1>>
  /\ f_non_trainable_vars = NoSnapshot
  /\ g_non_trainable_vars = NoSnapshot
  /\ pc = "idle"
  /\ fwd = NoCall
  /\ bwd = NoCall
  /\ events = <<>>
  /\ calls = <<>>
  /\ block \in CallableBlocks
  /\ stage = "constructed"
  /\ result = NoBlock

NextBlocks ==
  \/ /\ stage = "constructed"
     /\ \E inputs \in UNION {FeatureMaps(n) : n \in 1..MaxChannels},
           training \in BOOLEAN, keep \in BOOLEAN :
          ConvBlockCall(inputs, training, keep)
  \/ /\ stage = "constructed"
     /\ \E inputs \in TransformerInputs, output_range \in 0..1,
           training \in BOOLEAN, keeps \in [1..2 -> BOOLEAN] :
          EncoderBlockCall(inputs, output_range, training, keeps)
  \/ /\ stage = "constructed"
     /\ \E inputs \in TransformerInputs, training \in BOOLEAN,
           keeps \in [1..2 -> BOOLEAN] :
          ScaffoldCall(inputs, training, keeps)

SpecBlocks == InitBlocks /\ [][NextBlocks]_vars

\* The blocks with a squeeze-excitation option, with every kind of se_ratio;
\* the residual and bottleneck blocks with the projection shortcut, so that
\* the addition fits for every input.
SqueezeBlocks ==
  {[b EXCEPT !.se_ratio = r] :
     b \in {c \in ResidualBlocks \cup BottleneckBlocks \cup InvertedBottleneckBlocks :
              /\ c.stochastic_depth_drop_rate.kind = "None"
              /\ c.class \in {"ResidualBlock", "BottleneckBlock"} => c.use_projection},
     r \in SeRatios}

InitSqueeze ==
  /\ f = NoBlock
  /\ g = NoBlock
  /\ manual_grads = FALSE
  /\ fNonTrainable = <<0, 1>>
  /\ gNonTrainable = <<0, 1>>
  /\ f_non_trainable_vars = NoSnapshot
  /\ g_non_trainable_vars = NoSnapshot
  /\ pc = "idle"
  /\ fwd = NoCall
  /\ bwd = NoCall
  /\ events = <<>>
  /\ calls = <<>>
  /\ block \in SqueezeBlocks
  /\ stage = "constructed"
  /\ result = NoBlock

NextSqueeze ==
  \E inputs \in UNION {FeatureMaps(n) : n \in 1..MaxChannels},
     training \in BOOLEAN, keep \in BOOLEAN :
    ConvBlockCall(inputs, training, keep)

SpecSqueeze == InitSqueeze /\ [][NextSqueeze]_vars

(***************************************************************************)
(* Properties.                                                             *)
(***************************************************************************)
\* C1: after a forward call and the return of its backward call, on the
\* manual path and on the tape path, every non-trainable variable of F and
\* of G has the value it had when the forward call returned.
C1_StatisticsAsAfterForward ==
  pc = "backward_done" =>
    /\ fNonTrainable = fwd.fnt
    /\ gNonTrainable = fwd.gnt

\* C1 witness: a manual backward call in training mode has returned, after
\* a forward call that moved the statistics of F and G.
C1_Witness ==
  /\ pc = "backward_done"
  /\ bwd.path = "manual"
  /\ fwd.training
  /\ fwd.fnt # <<0, 1>>
  /\ fwd.gnt # <<0, 1>>
  /\ events = <<"f_call", "g_call", "ckpt", "g_recompute", "f_recompute", "load_ckpt">>

C3_ManualIffReversible ==
  (pc \in {"backward_done", "backward_error"}) =>
    /\ (bwd.path = "manual") <=>
         (manual_grads /\ f.strides = 1 /\ g.strides = 1
          /\ Len(fwd.y.ch) = Len(fwd.inputs.ch))
    /\ (bwd.path = "manual") <=> (manual_grads /\ ~fwd.irreversible)
    /\ bwd.path \in {"manual", "tape"}
    /\ (bwd.path = "tape") => (pc = "backward_done" /\ bwd.raised = "")

\* C3 witness: manual gradients are enabled, G alone has stride 2, the
\* channel counts agree, and grad_fn returned gradients from the tape.
C3_Witness ==
  /\ pc = "backward_done"
  /\ manual_grads
  /\ f.strides = 1 /\ g.strides # 1
  /\ Len(fwd.y.ch) = Len(fwd.inputs.ch)
  /\ bwd.path = "tape"

\* C4: on the manual path, for every list `variables` of distinct trainable
\* variables of F and G in any order, the returned list has the length of
\* `variables` and its k-th element is the gradient of variables[k].
C4_GradientsInCallerOrder ==
  (pc = "backward_done" /\ bwd.path = "manual") =>
    /\ Len(bwd.grad_vars) = Len(bwd.variables)
    /\ \A k \in 1..Len(bwd.variables) :
         bwd.grad_vars[k] =
           TapeGradient(f, g, fwd, bwd.dy, <<bwd.variables[k]>>).grad_vars[1]

\* C4 witness: the manual branch returned for a list of three variables that
\* starts with one of G and is not in F-then-G order, and the gradients of
\* its first two variables differ.
C4_Witness ==
  /\ pc = "backward_done"
  /\ bwd.path = "manual"
  /\ bwd.variables = << <<"g", "beta">>, <<"f", "kernel">>, <<"g", "kernel">> >>
  /\ bwd.grad_vars[1] # bwd.grad_vars[2]

\* C5: in every state the events so far are a prefix of F forward, G
\* forward, snapshot, G recomputation, F recomputation, restore; a manual
\* backward call that returned has run all six, each once; the snapshot
\* holds the statistics as both forward calls left them.
C5_EventOrder ==
  LET order == <<"f_call", "g_call", "ckpt", "g_recompute", "f_recompute", "load_ckpt">>
  IN
  /\ Len(events) <= Len(order)
  /\ events = SubSeq(order, 1, Len(events))
  /\ (pc = "backward_done" /\ bwd.path = "manual") => events = order
  /\ (pc \in {"forward_done", "backward_done", "backward_error"}) =>
       /\ f_non_trainable_vars = InnerStatistics(f, <<0, 1>>, fwd.x2, fwd.training)
       /\ g_non_trainable_vars = InnerStatistics(g, <<0, 1>>, fwd.z1, fwd.training)

\* C5 witness: a manual backward call in training mode has returned.
C5_Witness ==
  /\ pc = "backward_done"
  /\ bwd.path = "manual"
  /\ fwd.training
  /\ Len(events) = 6
  /\ g_non_trainable_vars # <<0, 1>>

\* C6 (the claim as stated): when the manual branch raises after the
\* recomputation of G has started, the non-trainable variables of F and G
\* have the values of the snapshot.
C6_RestoredOnError ==
  (pc = "backward_error" /\ Len(events) > 3) =>
    /\ fNonTrainable = f_non_trainable_vars
    /\ gNonTrainable = g_non_trainable_vars

\* C7: the forward pass computes z1 = F(x2) + x1_down, y2 = x2_down + G(z1),
\* y1 = z1 and y = concat(y1, y2), x1 being the first half of the channels
\* of the input and x2 the second.
C7_ForwardEquations ==
  (pc = "forward_done") =>
    LET n == Len(fwd.inputs.ch) \div 2
        x1 == Tensor(fwd.inputs.h, SubSeq(fwd.inputs.ch, 1, n))
        x2 == Tensor(fwd.inputs.h, SubSeq(fwd.inputs.ch, n + 1, 2 * n))
        f_x2 == InnerValue(f, fwd.fnt, x2, fwd.training)
        z1 == Add(f_x2, MaybeDownsample(x1, Len(f_x2.ch), f.strides, Axis))
        g_z1 == InnerValue(g, fwd.gnt, z1, fwd.training)
        y2 == Add(fwd.x2_down, g_z1)
    IN /\ fwd.z1 = z1
       /\ fwd.y1 = z1
       /\ fwd.y2 = y2
       /\ fwd.y = Tensor(z1.h, z1.ch \o y2.ch)

\* C7 witness: a forward call returned for an input whose halves differ and
\* whose output halves differ.
C7_Witness ==
  /\ pc = "forward_done"
  /\ Len(fwd.inputs.ch) = 4
  /\ fwd.x1 # fwd.x2
  /\ fwd.y1 # fwd.y2
  /\ InnerValue(f, fwd.fnt, fwd.x1, fwd.training)
       # InnerValue(f, fwd.fnt, fwd.x2, fwd.training)

\* C8: the x2 and x1 that the manual branch reconstructs are the halves of
\* the input of the forward call.
C8_InputReconstructed ==
  (pc = "backward_done" /\ bwd.path = "manual") =>
    LET n == Len(fwd.inputs.ch) \div 2 IN
    /\ bwd.x1 = Tensor(fwd.inputs.h, SubSeq(fwd.inputs.ch, 1, n))
    /\ bwd.x2 = Tensor(fwd.inputs.h, SubSeq(fwd.inputs.ch, n + 1, 2 * n))

\* C8 witness: a manual backward call returned after a forward call whose
\* output differs from its input in both halves.
C8_Witness ==
  /\ pc = "backward_done"
  /\ bwd.path = "manual"
  /\ Len(fwd.inputs.ch) = 4
  /\ fwd.y1 # fwd.x1
  /\ fwd.y2 # fwd.x2
  /\ fwd.x1 # fwd.x2

\* C9 (the claim as stated): in the scenario the halves have 16 channels,
\* the output has shape (8, 8, 32) and the layer is classified reversible.
C9_ScenarioAsStated ==
  (pc = "forward_done") =>
    /\ Shape(fwd.x1) = <<8, 16>>
    /\ Shape(fwd.x2) = <<8, 16>>
    /\ Shape(fwd.y) = <<8, 32>>
    /\ ~fwd.irreversible

\* C9 (amended): in the scenario every forward call completes, the halves
\* have 16 channels, each inner block returns 64 channels, the output has
\* shape (8, 8, 128), the layer is classified irreversible, and grad_fn takes
\* the gradient from the forward tape.
C9_ScenarioShapes ==
  /\ pc # "forward_error"
  /\ (pc \in {"forward_done", "backward_done", "backward_error"}) =>
       /\ Shape(fwd.x1) = <<8, 16>>
       /\ Shape(fwd.x2) = <<8, 16>>
       /\ Shape(fwd.f_x2) = <<8, 64>>
       /\ Shape(fwd.g_z1) = <<8, 64>>
       /\ Shape(fwd.y) = <<8, 128>>
       /\ fwd.irreversible
  /\ (pc \in {"backward_done", "backward_error"}) => bwd.path = "tape"

\* C9 witness: in the scenario, with manual gradients enabled, grad_fn
\* returned gradients taken from the tape.
C9_Witness ==
  /\ pc = "backward_done"
  /\ manual_grads
  /\ f = ScenarioBlock(1)
  /\ Shape(fwd.inputs) = <<8, 32>>
  /\ bwd.path = "tape"
  /\ Shape(bwd.dx) = <<8, 32>>

\* C10 (the claim as stated): whenever the forward call completes, y1 and y2
\* have the same channel count.
C10_EqualHalves ==
  (pc = "forward_done") => Len(fwd.y1.ch) = Len(fwd.y2.ch)

\* C10 (amended): whenever the forward call completes and F and G have the
\* same output channel count, y1 and y2 have the same channel count.
C10_EqualHalvesOfEqualBlocks ==
  (pc = "forward_done" /\ OutFilters(f) = OutFilters(g)) =>
    Len(fwd.y1.ch) = Len(fwd.y2.ch)

\* C10 witness: a forward call completed with F and G of the same output
\* channel count, wider than a half of the input.
C10_Witness ==
  /\ pc = "forward_done"
  /\ OutFilters(f) = OutFilters(g)
  /\ Len(fwd.x1.ch) < OutFilters(f)
  /\ Len(fwd.x1.ch) > 1
  /\ Len(fwd.y1.ch) = OutFilters(f)

\* C11: a forward call on an input with an odd channel count raises at the
\* split: F and G are not called, their non-trainable variables keep their
\* values and the snapshot attributes are not assigned.
C11_OddChannelsFailAtSplit ==
  [][(pc = "idle" /\ pc' # "idle" /\ Len(fwd'.inputs.ch) % 2 = 1) =>
       /\ pc' = "forward_error"
       /\ fwd'.raised = "split"
       /\ events' = events
       /\ fNonTrainable' = fNonTrainable
       /\ gNonTrainable' = gNonTrainable
       /\ f_non_trainable_vars' = f_non_trainable_vars
       /\ g_non_trainable_vars' = g_non_trainable_vars]_vars

\* C11 witness: a training-mode forward call on three channels has raised.
C11_Witness ==
  /\ pc = "forward_error"
  /\ Len(fwd.inputs.ch) = 3
  /\ fwd.training
  /\ fwd.raised = "split"
  /\ f_non_trainable_vars = NoSnapshot

\* C15 (the claim as stated): every completed forward call has
\* F.strides = G.strides.
C15_EqualStrides ==
  (pc = "forward_done") => f.strides = g.strides

\* C15 (amended): a pair with different strides is not rejected; every
\* forward call that completes on such a pair is classified irreversible and
\* its backward call takes the gradient from the tape.
C15_DifferentStridesIrreversible ==
  /\ (pc = "forward_done" /\ f.strides # g.strides) => fwd.irreversible
  /\ (pc \in {"backward_done", "backward_error"} /\ f.strides # g.strides) =>
       (pc = "backward_done" /\ bwd.path = "tape")

\* C15 witness: with F of stride 2 and G of stride 1 a forward call
\* completed without any broadcast sum, the channel counts of y and of the
\* input agree, manual gradients are enabled, and grad_fn used the tape.
C15_Witness ==
  /\ pc = "backward_done"
  /\ f.strides = 2 /\ g.strides = 1
  /\ manual_grads
  /\ Shape(fwd.x1_down) = Shape(fwd.f_x2)
  /\ Shape(fwd.x2_down) = Shape(fwd.g_z1)
  /\ Len(fwd.y.ch) = Len(fwd.inputs.ch)
  /\ bwd.path = "tape"

\* C16 (the claim as stated): x2_down is x2 average-pooled with G's stride
\* and padded to G's output channel count.
C16_PooledWithStrideOfG ==
  (pc = "forward_done") =>
    LET d == OutFilters(g) - Len(fwd.x2.ch) IN
    /\ fwd.x2_down.h = fwd.x2.h \div g.strides
    /\ fwd.x2_down.ch = IF d > 0 THEN Zeros(d \div 2) \o fwd.x2.ch \o Zeros(d \div 2)
                        ELSE fwd.x2.ch

\* C16 (amended): x2_down is x2 average-pooled with F's stride and padded
\* with (cG - c) div 2 zero channels on each side when x2 has fewer channels
\* than G's output.
C16_PooledWithStrideOfF ==
  (pc = "forward_done") =>
    LET d == OutFilters(g) - Len(fwd.x2.ch) IN
    /\ fwd.x2_down.h = fwd.x2.h \div f.strides
    /\ fwd.x2_down.ch = IF d > 0 THEN Zeros(d \div 2) \o fwd.x2.ch \o Zeros(d \div 2)
                        ELSE fwd.x2.ch

\* C16 witness: F has stride 2 and G stride 1, x2 of size 2 was pooled to
\* size 1 and padded to more channels.
C16_Witness ==
  /\ pc = "forward_done"
  /\ f.strides = 2 /\ g.strides = 1
  /\ fwd.x2.h = 2 /\ fwd.x2_down.h = 1
  /\ Len(fwd.x2_down.ch) > Len(fwd.x2.ch)

\* C17 (the claim as stated): once F has returned, _maybe_downsample returns
\* x1_down with the shape of F's output.
C17_DownsampledToShapeOfF ==
  (pc # "idle" /\ Len(events) > 0) =>
    /\ fwd.raised # "x1_down"
    /\ Shape(fwd.x1_down) = Shape(fwd.f_x2)

\* C20 (the claim as stated): before a forward call and after the backward
\* call returned the layer holds no snapshot.
C20_SnapshotDestroyed ==
  (pc \in {"idle", "backward_done"}) =>
    /\ f_non_trainable_vars = NoSnapshot
    /\ g_non_trainable_vars = NoSnapshot

\* C20 (amended): the layer holds no snapshot before the forward call; the
\* snapshot a completed forward call took is still held, unchanged, after
\* its backward call returned or raised.
C20_SnapshotKept ==
  /\ (pc = "idle") =>
       (f_non_trainable_vars = NoSnapshot /\ g_non_trainable_vars = NoSnapshot)
  /\ (pc \in {"forward_done", "backward_done", "backward_error"}) =>
       /\ f_non_trainable_vars = fwd.fnt /\ f_non_trainable_vars # NoSnapshot
       /\ g_non_trainable_vars = fwd.gnt /\ g_non_trainable_vars # NoSnapshot

\* C20 witness: a manual backward call in training mode returned and the
\* layer holds the snapshot of the statistics.
C20_Witness ==
  /\ pc = "backward_done"
  /\ bwd.path = "manual"
  /\ fwd.training
  /\ f_non_trainable_vars = fNonTrainable
  /\ Len(f_non_trainable_vars) = 2
  /\ f_non_trainable_vars # <<0, 1>>

\* C12 (the claim as stated): get_config never raises, its record has a key
\* for every named constructor option, and the instance rebuilt from the
\* record has the value of the exported instance for every option.
C12_ConfigRoundTrip ==
  /\ stage \notin {"export_error", "rebuild_error"}
  /\ (stage = "exported") => (Options(block.class) \subseteq DOMAIN result)
  /\ (stage = "rebuilt") => (result.rebuilt.attrs = block.attrs)

\* C13: a call of TransformerEncoderBlock or TransformerScaffold on a list
\* or tuple whose length is not 2 or 3 raises the ValueError that names the
\* class of the block, and no sub-layer was invoked before it; a call on a
\* list or tuple of length 2 or 3, or on a tensor, does not raise that error.
C13_UnexpectedInputs ==
  (stage \in {"called", "call_error"}
     /\ block.class \in {"TransformerEncoderBlock", "TransformerScaffold"}) =>
    LET unexpected == /\ result.inputs.kind \in {"list", "tuple"}
                      /\ Len(result.inputs.items) \notin {2, 3}
        text == "Unexpected inputs to %s with length at %d"
    IN /\ unexpected =>
            /\ stage = "call_error"
            /\ result.raised = "ValueError"
            /\ result.message.text = text
            /\ result.message.class = block.class
            /\ result.message.length = Len(result.inputs.items)
            /\ result.invoked = <<>>
       /\ ~unexpected => result.message.text # text

\* C13 witness: a TransformerScaffold called on a list of one tensor raised
\* the ValueError.
C13_Witness ==
  /\ stage = "call_error"
  /\ block.class = "TransformerScaffold"
  /\ result.inputs.kind = "list"
  /\ Len(result.inputs.items) = 1
  /\ result.raised = "ValueError"
  /\ result.message.class = "TransformerScaffold"

\* C14: when stochastic_depth_drop_rate is None, 0 or 0.0, a call of any of
\* the six blocks, in training or not, passes every branch value through
\* its stochastic-depth stage unchanged, and build instantiated no
\* StochasticDepth layer.
C14_ZeroDropRateIsIdentity ==
  (stage \in {"called", "call_error"}
     /\ (block.stochastic_depth_drop_rate.kind = "None"
           \/ block.stochastic_depth_drop_rate.percent = 0)) =>
    /\ ~result.stochastic_depth
    /\ \A i \in 1..Len(result.additions) :
         result.additions[i].entering = result.additions[i].branch

\* C14 witness: a TransformerEncoderBlock with drop rate 0.0 was called in
\* training mode and both residual additions received their branch values,
\* which are not zero.
C14_Witness ==
  /\ stage = "called"
  /\ block.class = "TransformerEncoderBlock"
  /\ block.stochastic_depth_drop_rate = [kind |-> "float", percent |-> 0]
  /\ result.training
  /\ Len(result.additions) = 2
  /\ \A i \in 1..2 :
       /\ result.additions[i].entering = result.additions[i].branch
       /\ \E k \in 1..Len(result.additions[i].branch.ch) :
            result.additions[i].branch.ch[k] # 0

\* C18 (the claim as stated): a call of ResidualBlock or BottleneckBlock
\* with a stride other than 1, or on an input whose channel count differs
\* from the block's output channel count, applies the projection shortcut,
\* and the addition of main branch and shortcut never fails.
C18_ProjectionWheneverNeeded ==
  (stage \in {"called", "call_error"}
     /\ block.class \in {"ResidualBlock", "BottleneckBlock"}) =>
    LET out_channels == IF block.class = "ResidualBlock" THEN block.filters
                        ELSE block.filters * 4
    IN /\ (block.strides # 1 \/ Len(result.inputs.ch) # out_channels) =>
            result.projection
       /\ result.raised = ""

\* C18 (amended): the projection shortcut is applied exactly when the block
\* was constructed with use_projection set, whatever the stride and the
\* channel counts; when it is applied the addition succeeds and the output
\* has size ceil(h / strides) and the block's output channel count.
C18_ProjectionIffUseProjection ==
  (stage \in {"called", "call_error"}
     /\ block.class \in {"ResidualBlock", "BottleneckBlock"}) =>
    LET out_channels == IF block.class = "ResidualBlock" THEN block.filters
                        ELSE block.filters * 4
    IN /\ result.projection = block.use_projection
       /\ block.use_projection =>
            /\ result.raised = ""
            /\ result.out.h = (result.inputs.h + block.strides - 1) \div block.strides
            /\ Len(result.out.ch) = out_channels

\* C18 witness: a ResidualBlock with use_projection and stride 2 was called
\* on an input of size 2 whose channel count differs from filters, and
\* returned an output of size 1 with filters channels.
C18_Witness ==
  /\ stage = "called"
  /\ block.class = "ResidualBlock"
  /\ block.use_projection
  /\ block.strides = 2
  /\ result.inputs.h = 2
  /\ Len(result.inputs.ch) = 3
  /\ block.filters = 2
  /\ result.projection
  /\ Shape(result.out) = <<1, 2>>

\* C19 (the claim as stated): a call of an InvertedBottleneckBlock on an
\* input of size h with in_filters channels returns an output of size
\* ceil(h / strides) with out_filters channels.
C19_OutputShape ==
  (stage \in {"called", "call_error"} /\ block.class = "InvertedBottleneckBlock") =>
    /\ result.raised = ""
    /\ Shape(result.out) =
         <<(result.inputs.h + block.strides - 1) \div block.strides, block.out_filters>>

\* C21: no forward call and no backward call of the layer, on the manual
\* path or on the tape path, returning or raising, changes a trainable
\* variable (kernel, beta) of F or of G.
C21_TrainableVariablesUnchanged ==
  [][/\ f'.kernel = f.kernel /\ f'.beta = f.beta
     /\ g'.kernel = g.kernel /\ g'.beta = g.beta]_vars

\* C21 witness: a manual backward call in training mode returned after the
\* recomputations and the restore, the statistics differ from their initial
\* values, and the trainable variables have the values of construction.
C21_Witness ==
  /\ pc = "backward_done"
  /\ bwd.path = "manual"
  /\ fwd.training
  /\ Len(events) = 6
  /\ events[6] = "load_ckpt"
  /\ fNonTrainable # <<0, 1>>
  /\ gNonTrainable # <<0, 1>>
  /\ f.kernel = 1 /\ f.beta = 0
  /\ g.kernel = 2 /\ g.beta = 0

\* C22 (the claim as stated): in a call of TransformerEncoderBlock, with
\* norm_first set or not, each residual addition adds the shortcut to the
\* value stochastic depth returned for the layer-scaled sub-layer output.
C22_StochasticDepthOnSublayerOutput ==
  (stage = "called" /\ block.class = "TransformerEncoderBlock") =>
    \A i \in 1..Len(result.additions) :
      /\ result.additions[i].branch = result.additions[i].sublayer
      /\ result.additions[i].sum =
           Add(result.additions[i].shortcut, result.additions[i].entering)

\* C23: a call that returns, returns a pair exactly when the block was
\* configured for it: InvertedBottleneckBlock the pair with `endpoints` iff
\* output_intermediate_endpoints, where endpoints has the key 'depthwise'
\* iff use_depthwise (and no other key); TransformerEncoderBlock and
\* TransformerScaffold the pair with the attention scores iff
\* return_attention_scores; every other call a bare tensor.
C23_ReturnedForm ==
  (stage = "called") =>
    CASE block.class = "InvertedBottleneckBlock" ->
           /\ result.returned.pair = block.output_intermediate_endpoints
           /\ result.returned.pair =>
                /\ result.returned.name = "endpoints"
                /\ ("depthwise" \in result.returned.keys) = block.use_depthwise
                /\ result.returned.keys \subseteq {"depthwise"}
      [] block.class \in {"TransformerEncoderBlock", "TransformerScaffold"} ->
           /\ result.returned.pair = block.return_attention_scores
           /\ result.returned.pair => result.returned.name = "attention_scores"
      [] OTHER -> ~result.returned.pair

\* C23 witness: an InvertedBottleneckBlock with output_intermediate_endpoints
\* and without depthwise convolution returned the pair of its output and an
\* empty dictionary.
C23_Witness ==
  /\ stage = "called"
  /\ block.class = "InvertedBottleneckBlock"
  /\ block.output_intermediate_endpoints
  /\ ~block.use_depthwise
  /\ result.returned = [pair |-> TRUE, name |-> "endpoints", keys |-> {}]
  /\ ~IsRaised(result.out)

\* C24: with several forward calls of one layer outstanding and their
\* grad_fn called in any order, every manual backward call that returned
\* left the non-trainable variables of F and of G with the values they had
\* when that backward call started.
C24_InterleavedBackwardRestores ==
  \A k \in 1..Len(calls) :
    (calls[k].state = "returned" /\ calls[k].path = "manual") =>
      calls[k].after = calls[k].before

\* C24 witness: the grad_fn of the first of two forward calls in training
\* mode returned on the manual path after the second forward call had
\* replaced the snapshot of the first, and left the statistics as it found
\* them.
C24_Witness ==
  /\ Len(calls) = 2
  /\ calls[1].state = "returned"
  /\ calls[1].path = "manual"
  /\ calls[1].fw.training
  /\ calls[2].fw.training
  /\ calls[2].fw.raised = ""
  /\ calls[1].before = <<calls[2].fw.fnt, calls[2].fw.gnt>>
  /\ f_non_trainable_vars # calls[1].fw.ckptF
  /\ g_non_trainable_vars # calls[1].fw.ckptG
  /\ calls[1].after = calls[1].before

\* C25: a backward call on the manual path whose `variables` is None or
\* holds a variable that is not a trainable variable of F or G raises where
\* the index mapping is computed: neither G nor F was recomputed, the
\* non-trainable variables of F and G are those the forward call left, and
\* no gradient is returned.
C25_UnknownVariablesRaiseFirst ==
  (pc \in {"backward_done", "backward_error"} /\ bwd.path = "manual"
     /\ (bwd.variables = VariablesNone
           \/ \E k \in 1..Len(bwd.variables) : Index(FGVarRefs, bwd.variables[k]) = 0)) =>
    /\ pc = "backward_error"
    /\ bwd.raised = "self_to_var_index"
    /\ events = fwd.events
    /\ fNonTrainable = fwd.fnt
    /\ gNonTrainable = fwd.gnt
    /\ bwd.grad_vars = <<>>
    /\ IsRaised(bwd.dx)

\* C25 witness: after a forward call in training mode, a manual backward
\* call given the layer's variables and one of another layer raised.
C25_Witness ==
  /\ pc = "backward_error"
  /\ bwd.path = "manual"
  /\ fwd.training
  /\ bwd.variables = Append(FGVarRefs, ForeignVariable)
  /\ bwd.raised = "self_to_var_index"
  /\ fNonTrainable # <<0, 1>>

\* C26: when F and G return the channel count of each input half and the
\* input height is a multiple of F's stride times G's stride holding at
\* least two such windows, the forward call completes if and only if G has
\* stride 1: then x1_down has the shape of F's output and x2_down the shape
\* of G's output; otherwise z1 is still formed and the addition of y2
\* raises, x2_down having the height left by F's stride and G's output a
\* smaller one.
C26_CompatibleIffStrideOfGIsOne ==
  (pc # "idle"
     /\ OutFilters(f) = OutFilters(g)
     /\ Len(fwd.inputs.ch) = 2 * OutFilters(f)
     /\ fwd.inputs.h % (f.strides * g.strides) = 0
     /\ fwd.inputs.h \div (f.strides * g.strides) >= 2) =>
    /\ (pc = "forward_done") <=> (g.strides = 1)
    /\ Shape(fwd.x1_down) = Shape(fwd.f_x2)
    /\ ~IsRaised(fwd.z1)
    /\ (g.strides = 1) => Shape(fwd.x2_down) = Shape(fwd.g_z1)
    /\ (g.strides # 1) =>
         /\ pc = "forward_error"
         /\ fwd.raised = "y2"
         /\ fwd.x2_down.h = fwd.inputs.h \div f.strides
         /\ fwd.g_z1.h = fwd.inputs.h \div (f.strides * g.strides)
         /\ fwd.g_z1.h < fwd.x2_down.h

\* C26 witness: F and G both have stride 2 and the channel count of the
\* input halves; on an input of height 8 the forward call raised at y2 with
\* x2_down of height 4 and G's output of height 2.
C26_Witness ==
  /\ pc = "forward_error"
  /\ f.strides = 2 /\ g.strides = 2
  /\ OutFilters(f) = OutFilters(g)
  /\ Len(fwd.inputs.ch) = 2 * OutFilters(f)
  /\ fwd.inputs.h = 8
  /\ fwd.raised = "y2"
  /\ fwd.x2_down.h = 4
  /\ fwd.g_z1.h = 2

\* C27: a call of InvertedBottleneckBlock or TuckerConvBlock adds the input
\* to the main branch exactly when use_residual is set, in_filters equals
\* out_filters and strides is 1; the stochastic-depth stage runs only then,
\* on the main branch; otherwise the output is the main-branch output; in
\* neither case the call raises.
C27_ResidualIffSameShape ==
  (stage \in {"called", "call_error"}
     /\ block.class \in {"InvertedBottleneckBlock", "TuckerConvBlock"}) =>
    LET residual == /\ block.use_residual
                    /\ block.in_filters = block.out_filters
                    /\ block.strides = 1
    IN /\ stage = "called"
       /\ (Len(result.additions) = 1) <=> residual
       /\ residual =>
            /\ result.additions[1].branch = result.main
            /\ result.out = Add(result.additions[1].entering, result.inputs)
            /\ Shape(result.out) = Shape(result.inputs)
       /\ ~residual =>
            /\ result.additions = <<>>
            /\ result.out = result.main

\* C27 witness: a TuckerConvBlock with use_residual, equal filters and
\* stride 1 was called in training mode, stochastic depth dropped the main
\* branch, and the output is the input.
C27_Witness ==
  /\ stage = "called"
  /\ block.class = "TuckerConvBlock"
  /\ block.use_residual
  /\ block.in_filters = 2 /\ block.out_filters = 2
  /\ block.strides = 1
  /\ result.training
  /\ Len(result.additions) = 1
  /\ result.additions[1].entering # result.additions[1].branch
  /\ result.out = result.inputs

\* C28: a call of ResidualBlock, BottleneckBlock or InvertedBottleneckBlock
\* runs the squeeze-excitation stage exactly when se_ratio is a number with
\* 0 < se_ratio <= 1; with se_ratio None, 0, negative or above 1 the stage
\* is absent; the call raises for no value of se_ratio.
C28_SqueezeExcitationIffRatioInRange ==
  (stage \in {"called", "call_error"}) =>
    LET in_range == /\ block.se_ratio.kind # "None"
                    /\ 0 < block.se_ratio.percent
                    /\ block.se_ratio.percent <= 100
    IN /\ stage = "called"
       /\ in_range => result.invoked = <<"squeeze_excitation">>
       /\ ~in_range => result.invoked = <<>>

\* C28 witness: a BottleneckBlock with se_ratio 1.5 was called and returned
\* without running a squeeze-excitation stage.
C28_Witness ==
  /\ stage = "called"
  /\ block.class = "BottleneckBlock"
  /\ block.se_ratio = [kind |-> "float", percent |-> 150]
  /\ result.invoked = <<>>
  /\ ~IsRaised(result.out)

\* C29: a call of TransformerScaffold with norm_first and
\* ffn_has_residual_connection both set raises a ValueError, on accepted
\* inputs the one about the residual connection; with any other setting
\* that error is not raised; with norm_first unset and
\* ffn_has_residual_connection set the output is what stochastic depth
\* returned for the feed-forward output, and the output layer normalization
\* is not invoked.
C29_NormFirstWithFfnResidualRaises ==
  (stage \in {"called", "call_error"} /\ block.class = "TransformerScaffold") =>
    LET text == "In the case of norm_first, the residual connection should be done in the TransformerScaffold call function"
        accepted == result.inputs.kind = "tensor" \/ Len(result.inputs.items) \in {2, 3}
    IN /\ (block.norm_first /\ block.ffn_has_residual_connection) =>
            /\ stage = "call_error"
            /\ result.raised = "ValueError"
            /\ accepted => result.message.text = text
       /\ ~(block.norm_first /\ block.ffn_has_residual_connection) =>
            /\ result.message.text # text
            /\ accepted => stage = "called"
       /\ (stage = "called" /\ ~block.norm_first /\ block.ffn_has_residual_connection) =>
            /\ Len(result.additions) = 2
            /\ result.additions[2].branch = result.main
            /\ result.out = result.additions[2].entering
            /\ \A i \in 1..Len(result.invoked) : result.invoked[i] # "output_layer_norm"
            /\ result.invoked[Len(result.invoked)] = "stochastic_depth"

\* C29 witness: a TransformerScaffold with norm_first and
\* ffn_has_residual_connection called on a tensor raised the ValueError
\* after its attention and feed-forward layers had run.
C29_Witness ==
  /\ stage = "call_error"
  /\ block.class = "TransformerScaffold"
  /\ block.norm_first /\ block.ffn_has_residual_connection
  /\ result.inputs.kind = "tensor"
  /\ result.raised = "ValueError"
  /\ result.message.length = 0
  /\ Len(result.invoked) > 0
  /\ result.invoked[Len(result.invoked)] = "output_dropout"

====
